---- MODULE Spec2Model ----
(***************************************************************************)
(* OOS exception reconciliation: the refresh jobs of                       *)
(* core/background_tasks.py and BigQueryService.sync_raw_order_data of     *)
(* core/bigquery_service.py, with the two exception tables as state; the   *)
(* OOS classifiers and the aggregation of core/analytics_service.py; the   *)
(* pagination of the two source adapters.                                  *)
(***************************************************************************)
EXTENDS Integers, Sequences, FiniteSets, TLC

\* ---------------------------------------------------------------- bounds
MaxTime == 2        \* the clock runs over 1..MaxTime (one unit = one second)
MaxFetched == 2     \* longest list of orders a source adapter returns
MaxRows == 2        \* most rows the two exception tables hold together
MaxOverlapBatch == 1  \* longest batch of an invocation that overlaps another
MaxReport == 2      \* most orders the analytics window holds
MaxPages == 3       \* largest max_pages get_orders is called with

\* ------------------------------------------------------------- constants
Sources == {"stord", "shipbob"}

\* SQL NULL in resolved_timestamp; timestamps are 1..MaxTime
NULL == 0

\* Python's None: the value dict.get yields for an absent or null field
PyNone == "py:None"

\* ---------------------------------------------------------- raw orders
\* A warehouse order as get_sales_orders returns it: every requested field
\* is present (absent ones as None).  content stands for the rest of the
\* payload (customer, facility, ...), which the reconciliation never reads.
StordLine(status) ==
    [status |-> status, order_line_items |-> <<[item_sku |-> "sku1"]>>]

StordOrder(number, status, content) ==
    [order_number |-> number,
     sales_order_lines |-> <<StordLine(status)>>,
     content |-> content]

StordOrders ==
    { StordOrder("A", "backordered", 1),
      StordOrder("A", "backordered", 2),
      StordOrder("B", "backordered", 1),
      StordOrder("B", "shipped", 1),
      StordOrder("", "backordered", 1),
      StordOrder(PyNone, "backordered", 1) }

\* A DTC order as get_orders returns it.
ShipbobShipment(status, detail) ==
    [status |-> status,
     status_details |-> <<[name |-> detail]>>,
     location |-> [name |-> "Fontana"]]

ShipbobOrder(id, status, content) ==
    [id |-> id, type |-> "DTC", status |-> status,
     shipments |-> <<ShipbobShipment("Exception", "OutOfStock")>>,
     content |-> content]

ShipbobOrders ==
    { ShipbobOrder("A", "Exception", 1),
      ShipbobOrder("A", "Exception", 2),
      ShipbobOrder("B", "Exception", 1),
      ShipbobOrder("B", "Processing", 1),
      ShipbobOrder("", "Exception", 1),
      ShipbobOrder(PyNone, "Exception", 1) }

\* all sequences over S of length at most n
RECURSIVE SeqsUpTo(_, _)
SeqsUpTo(S, n) ==
    IF n = 0 THEN {<<>>}
    ELSE LET shorter == SeqsUpTo(S, n - 1)
         IN  shorter \cup {Append(s, x) : s \in shorter, x \in S}

\* ------------------------------------------------- data_models.py
\* convert_stord_order_to_model: one line item per order_line_item, carrying
\* the status of its sales order line; here the statuses of those line items.
RECURSIVE LineItemStatuses(_)
LineItemStatuses(sols) ==
    IF sols = <<>> THEN <<>>
    ELSE [i \in 1..Len(Head(sols).order_line_items) |-> Head(sols).status]
         \o LineItemStatuses(Tail(sols))

\* ------------------------------------------------ background_tasks.py
\* is_oos = any(line.status == "backordered" for line in model_order.line_items)
StordIsOos(order_data) ==
    LET line_items == LineItemStatuses(order_data.sales_order_lines)
    IN  \E i \in 1..Len(line_items) : line_items[i] = "backordered"

\* stord_filtered_oos_orders: the raw orders that are OOS, in fetch order
StordFilteredOosOrders(stord_raw_orders) ==
    SelectSeq(stord_raw_orders, StordIsOos)

\* ------------------------------------------------- shipbob_service.py
\* has_oos of _filter_oos_orders
ShipbobHasOos(order) ==
    \E i \in 1..Len(order.shipments) :
        /\ order.shipments[i].status = "Exception"
        /\ \E j \in 1..Len(order.shipments[i].status_details) :
               order.shipments[i].status_details[j].name = "OutOfStock"

\* order.get("id") or id(order): a falsy id falls back to the identity of the
\* dict object, which is distinct for every element of the fetched list
ShipbobSeenKey(orders, i) ==
    IF orders[i].id = PyNone \/ orders[i].id = ""
    THEN <<"object", i>>
    ELSE <<"id", orders[i].id>>

ShipbobKeeps(orders, i) ==
    /\ orders[i].type = "DTC"
    /\ orders[i].status = "Exception"
    /\ ShipbobHasOos(orders[i])

\* the order as appended to output, with the extracted location name added
\* (every shipment of the orders above carries a location object)
ShipbobOutputOrder(order) ==
    [id |-> order.id, type |-> order.type, status |-> order.status,
     shipments |-> order.shipments, content |-> order.content,
     shipments_location_name |->
        IF Len(order.shipments) > 0
        THEN order.shipments[1].location.name
        ELSE PyNone]

RECURSIVE FilterOosFrom(_, _)
FilterOosFrom(orders, i) ==
    IF i > Len(orders) THEN <<>>
    ELSE IF /\ ShipbobKeeps(orders, i)
            /\ ~\E k \in 1..(i - 1) :
                   /\ ShipbobKeeps(orders, k)
                   /\ ShipbobSeenKey(orders, k) = ShipbobSeenKey(orders, i)
         THEN <<ShipbobOutputOrder(orders[i])>> \o FilterOosFrom(orders, i + 1)
         ELSE FilterOosFrom(orders, i + 1)

\* _filter_oos_orders
FilterOosOrders(orders) == FilterOosFrom(orders, 1)

\* ------------------------------------------------- bigquery_service.py
\* id_field of sync_raw_order_data
IdField(source) == IF source = "stord" THEN "order_number" ELSE "id"

\* order_data.get(id_field)
GetIdField(order_data, source) ==
    IF IdField(source) = "order_number" THEN order_data.order_number
    ELSE order_data.id

\* str(value): None becomes the four-letter string, a string is itself
Str(value) == IF value = PyNone THEN "None" ELSE value

\* json.dumps(order_data): the serialized snapshot of the order
JsonDumps(order_data) == [json |-> order_data]

\* json.loads(row.raw_json): the order a stored row was written from
JsonLoads(raw_json) == raw_json.json

\* the staging row built for one order
StagingRow(order_data, source) ==
    [id |-> Str(GetIdField(order_data, source)),
     raw_json |-> JsonDumps(order_data)]

\* "if not order_id_value: continue"
SkipsOrder(order_data, source) == Str(GetIdField(order_data, source)) = ""

RECURSIVE RowsToLoad(_, _)
RowsToLoad(raw_orders_data, source) ==
    IF raw_orders_data = <<>> THEN <<>>
    ELSE (IF SkipsOrder(Head(raw_orders_data), source) THEN <<>>
          ELSE <<StagingRow(Head(raw_orders_data), source)>>)
         \o RowsToLoad(Tail(raw_orders_data), source)

\* staging_{source}_{timestamp:%Y%m%d%H%M%S}
StagingTableId(source, timestamp) == <<"staging", source, timestamp>>

\* The text the MERGE statement puts between the backticks after USING.
UsingText(source, raw_orders_data, timestamp) ==
    IF raw_orders_data # <<>>
    THEN [kind |-> "table_id", table |-> StagingTableId(source, timestamp)]
    ELSE [kind |-> "subquery", table |-> <<"target", source>>]

\* What the backtick-quoted text after USING denotes.  Quoted text is an
\* identifier path: it names a table or nothing.  The subquery text carries
\* backticks of its own, so the statement does not parse.
UsingRelation(using, stagingTables) ==
    IF using.kind = "table_id" /\ using.table \in DOMAIN stagingTables
    THEN [ok |-> TRUE, rows |-> stagingTables[using.table]]
    ELSE [ok |-> FALSE, rows |-> <<>>]

\* ON T.{id_field} = S.{id_field} AND T.source = @source
MergeOn(t, s, source) == t.id = s.id /\ t.source = source

MatchesOf(t, S, source) == {i \in 1..Len(S) : MergeOn(t, S[i], source)}

\* WHEN NOT MATCHED BY TARGET THEN INSERT
MergeInsertRow(s, source, timestamp) ==
    [id |-> s.id, raw_json |-> s.raw_json, source |-> source,
     first_seen_timestamp |-> timestamp, last_seen_timestamp |-> timestamp,
     is_currently_in_exception |-> TRUE, resolved_timestamp |-> NULL]

\* the update without "T.resolved_timestamp = NULL"
MergeUpdateRowKeepsResolved(t, s, timestamp) ==
    [t EXCEPT !.raw_json = s.raw_json,
              !.last_seen_timestamp = timestamp,
              !.is_currently_in_exception = TRUE]

\* WHEN MATCHED THEN UPDATE
MergeUpdateRow(t, s, timestamp) ==
    [t EXCEPT !.raw_json = s.raw_json,
              !.last_seen_timestamp = timestamp,
              !.is_currently_in_exception = TRUE,
              !.resolved_timestamp = NULL]

\* the clause without "T.is_currently_in_exception = TRUE"
MergeResolvesAnyRow(t, source) == t.source = source

\* WHEN NOT MATCHED BY SOURCE AND T.is_currently_in_exception = TRUE
\*   AND T.source = @source
MergeResolves(t, source) ==
    t.is_currently_in_exception = TRUE /\ t.source = source

MergeResolveRow(t, timestamp) ==
    [t EXCEPT !.is_currently_in_exception = FALSE,
              !.resolved_timestamp = timestamp]

\* a target row matched by more than one source row aborts the statement
MergeAmbiguous(T, S, source) ==
    \E j \in 1..Len(T) : Cardinality(MatchesOf(T[j], S, source)) > 1

MergeTargetRow(t, S, source, timestamp) ==
    LET m == MatchesOf(t, S, source)
    IN  IF m # {} THEN MergeUpdateRow(t, S[CHOOSE i \in m : TRUE], timestamp)
        ELSE IF MergeResolves(t, source) THEN MergeResolveRow(t, timestamp)
        ELSE t

\* an INSERT of every source row, matched or not
MergeInsertsEveryRow(T, S, source, timestamp) ==
    [i \in 1..Len(S) |-> MergeInsertRow(S[i], source, timestamp)]

\* the rows WHEN NOT MATCHED BY TARGET inserts, in source order
MergeInserts(T, S, source, timestamp) ==
    LET unmatched ==
            SelectSeq(S, LAMBDA s : ~\E j \in 1..Len(T) : MergeOn(T[j], s, source))
    IN  [i \in 1..Len(unmatched) |-> MergeInsertRow(unmatched[i], source, timestamp)]

\* the MERGE statement applied to target table T with source relation S
MergeTable(T, S, source, timestamp) ==
    [j \in 1..Len(T) |-> MergeTargetRow(T[j], S, source, timestamp)]
    \o MergeInserts(T, S, source, timestamp)

\* ----------------------------------------------------------------- state
VARIABLES
    tables,     \* source -> rows of its exception table
    staging,    \* staging table id -> rows, for the staging tables that exist
    clock,      \* datetime.now(), in seconds
    call,       \* the last sync_raw_order_data invocation: its source and
                \* timestamp, and the request that raised ("none": it returned)
    inv,        \* thread -> its process_stord_data run in progress
    report,     \* the get_full_analytics call: the orders read and its outcome
    stord_req,  \* the get_sales_orders call in progress
    shipbob_req, \* the get_orders call in progress
    job,        \* the trigger_full_refresh run: its position and what its
                \* two refresh jobs fetched, handed over and logged
    filter_call, \* the last _filter_oos_orders call: its argument and result
    query,      \* the last read of the store: its arguments and outcome
    bulk        \* the get_bulk_inventory request in progress

vars ==
    <<tables, staging, clock, call, inv, report, stord_req, shipbob_req,
      job, filter_call, query, bulk>>

\* the store and the last reconciliation
store == <<tables, staging, call>>

\* the source adapters and the analytics aggregator
readers == <<report, stord_req, shipbob_req>>

\* the refresh run, the filter call, the store reads and the inventory request
others == <<job, filter_call, query, bulk>>

NoStaging == [n \in {} |-> <<>>]

\* The client requests of the try block that may raise for reasons outside
\* the program (transport, quota, ...); "none": every request goes through.
\* The drop in the finally block is taken to go through.
Faults == {"none", "create_table", "load", "merge"}

\* try-block, step 1: create and load the staging table when there are rows
StageRows(stg, source, raw_orders_data, timestamp, fault) ==
    LET rows == RowsToLoad(raw_orders_data, source)
        id == StagingTableId(source, timestamp)
    IN  IF raw_orders_data = <<>> \/ rows = <<>>
        THEN [staging |-> stg, error |-> "none"]
        ELSE IF fault = "create_table" \/ id \in DOMAIN stg
        THEN [staging |-> stg, error |-> "create_table"]
        ELSE IF fault = "load"
        THEN [staging |-> (id :> <<>>) @@ stg, error |-> "load"]
        ELSE [staging |-> (id :> rows) @@ stg, error |-> "none"]

\* the merge as separate statements: the upsert is committed when the
\* request fails before the resolutions
ExecuteMergeNotAtomic(T, stg, source, raw_orders_data, timestamp, fault) ==
    LET rel == UsingRelation(UsingText(source, raw_orders_data, timestamp), stg)
    IN  IF ~rel.ok \/ MergeAmbiguous(T, rel.rows, source)
        THEN [table |-> T, error |-> "merge"]
        ELSE IF fault = "merge"
        THEN [table |->
                 [j \in 1..Len(T) |->
                     IF MatchesOf(T[j], rel.rows, source) # {}
                     THEN MergeTargetRow(T[j], rel.rows, source, timestamp)
                     ELSE T[j]]
                 \o MergeInserts(T, rel.rows, source, timestamp),
              error |-> "merge"]
        ELSE [table |-> MergeTable(T, rel.rows, source, timestamp),
              error |-> "none"]

\* try-block, step 2: the MERGE statement, applied as one transaction
ExecuteMerge(T, stg, source, raw_orders_data, timestamp, fault) ==
    LET rel == UsingRelation(UsingText(source, raw_orders_data, timestamp), stg)
    IN  IF fault = "merge" \/ ~rel.ok \/ MergeAmbiguous(T, rel.rows, source)
        THEN [table |-> T, error |-> "merge"]
        ELSE [table |-> MergeTable(T, rel.rows, source, timestamp),
              error |-> "none"]

\* finally-block: delete_table(staging_table_id, not_found_ok=True)
DropStaging(stg, source, raw_orders_data, timestamp) ==
    LET id == StagingTableId(source, timestamp)
    IN  IF raw_orders_data = <<>> THEN stg
        ELSE [n \in DOMAIN stg \ {id} |-> stg[n]]

\* sync_raw_order_data(source, raw_orders_data, timestamp) on target table T
SyncResult(T, stg, source, raw_orders_data, timestamp, fault) ==
    LET staged == StageRows(stg, source, raw_orders_data, timestamp, fault)
        merged == IF staged.error # "none"
                  THEN [table |-> T, error |-> staged.error]
                  ELSE ExecuteMerge(T, staged.staging, source, raw_orders_data,
                                    timestamp, fault)
    IN  [table |-> merged.table,
         staging |-> DropStaging(staged.staging, source, raw_orders_data, timestamp),
         error |-> merged.error]

\* rows held by the two exception tables
TotalRows == Len(tables["stord"]) + Len(tables["shipbob"])

\* the threads that run background tasks
Threads == {"t1", "t2"}

\* a thread that runs no refresh job
NoInvocation ==
    [pc |-> "idle", batch |-> <<>>, timestamp |-> NULL, error |-> "none",
     seen |-> <<>>, commit |-> NULL]

\* no analytics call made
NoReport == [state |-> "idle", oos_orders |-> <<>>, result |-> PyNone]

\* no get_sales_orders call in progress
NoStordReq == [pc |-> "idle", after |-> PyNone, response_data |-> <<>>]

\* no get_orders call in progress
NoShipbobReq ==
    [pc |-> "idle", page |-> NULL, max_pages |-> NULL, output |-> <<>>,
     requested |-> <<>>, got |-> <<>>]

\* no refresh run in progress
NoJob ==
    [pc |-> "idle",
     fetch |-> [s \in Sources |-> "none"],
     synced |-> [s \in Sources |-> FALSE],
     logged |-> <<>>,
     reported |-> <<>>,
     batch |-> <<>>]

\* no filter call made
NoFilterCall == [called |-> FALSE, orders |-> <<>>, output |-> <<>>]

\* no read of the store made
NoQuery ==
    [op |-> "none", source |-> "", order_id |-> "", start_date |-> NULL,
     end_date |-> NULL, raised |-> "none", queried |-> FALSE, rows |-> <<>>]

\* no inventory request received
NoBulk ==
    [pc |-> "idle", skus |-> <<>>, tasks |-> <<>>, pending |-> {},
     completed |-> <<>>, returned |-> <<>>, failed |-> {},
     inventory_results |-> <<>>]

\* the store after create_tables_if_not_exists on an empty dataset
EmptyStore ==
    /\ tables = [s \in Sources |-> <<>>]
    /\ staging = NoStaging
    /\ clock = 1
    /\ call = [source |-> "stord", timestamp |-> NULL, error |-> "none"]

Init ==
    /\ EmptyStore
    /\ inv = [t \in Threads |-> NoInvocation]
    /\ report = NoReport
    /\ stord_req = NoStordReq
    /\ shipbob_req = NoShipbobReq
    /\ job = NoJob
    /\ filter_call = NoFilterCall
    /\ query = NoQuery
    /\ bulk = NoBulk

\* what one invocation of sync_raw_order_data does to the store, the two
\* exception tables holding at most max_rows rows
SyncStep(source, raw_orders_data, timestamp, max_rows) ==
    \E fault \in Faults :
        LET r == SyncResult(tables[source], staging, source, raw_orders_data,
                            timestamp, fault)
        IN  /\ TotalRows - Len(tables[source]) + Len(r.table) <= max_rows
            /\ tables' = [tables EXCEPT ![source] = r.table]
            /\ staging' = r.staging
            /\ call' = [source |-> source, timestamp |-> timestamp,
                        error |-> r.error]

\* one invocation of sync_raw_order_data, from entry to return or raise
sync_raw_order_data(source, raw_orders_data, timestamp) ==
    /\ SyncStep(source, raw_orders_data, timestamp, MaxRows)
    /\ UNCHANGED <<clock, inv, readers, others>>

\* what the warehouse adapter may return
StordFetches == SeqsUpTo(StordOrders, MaxFetched)

\* what the DTC adapter may return
ShipbobFetches == SeqsUpTo(ShipbobOrders, MaxFetched)

\* the batches process_stord_data hands to the reconciliation
StordBatches == {StordFilteredOosOrders(f) : f \in StordFetches}

\* the batches process_shipbob_data hands to the reconciliation
ShipbobBatches == {FilterOosOrders(f) : f \in ShipbobFetches}

\* process_stord_data: fetch, keep the OOS orders, reconcile
process_stord_data ==
    \E stord_filtered_oos_orders \in StordBatches :
        sync_raw_order_data("stord", stord_filtered_oos_orders, clock)

\* process_shipbob_data: fetch, filter and deduplicate, reconcile
process_shipbob_data ==
    \E filtered_shipbob_orders \in ShipbobBatches :
        sync_raw_order_data("shipbob", filtered_shipbob_orders, clock)

\* time passes between refresh jobs
Tick ==
    /\ clock < MaxTime
    /\ clock' = clock + 1
    /\ UNCHANGED <<store, inv, readers, others>>

Next ==
    \/ process_stord_data
    \/ process_shipbob_data
    \/ Tick

Spec == Init /\ [][Next]_vars

\* ------------------------------------ overlapping reconciliations
\* Two POST /api/trigger-refresh requests run trigger_full_refresh on two
\* threads of the background-task pool; here their process_stord_data runs,
\* request by request.  No request fails for reasons outside the program.
OverlapBatches == {b \in StordBatches : Len(b) <= MaxOverlapBatch}

\* current_timestamp = datetime.now(); sync_raw_order_data is entered
StartSync(t) ==
    /\ inv[t].pc = "idle"
    /\ \E batch \in OverlapBatches :
          inv' = [inv EXCEPT ![t] =
                     [NoInvocation EXCEPT
                         !.batch = batch, !.timestamp = clock,
                         !.pc = IF batch # <<>> /\ RowsToLoad(batch, "stord") # <<>>
                                THEN "create_table" ELSE "merge"]]
    /\ UNCHANGED <<store, clock, readers, others>>

\* self.client.create_table(staging_table): Conflict when the table exists
CreateStaging(t) ==
    LET id == StagingTableId("stord", inv[t].timestamp)
    IN  /\ inv[t].pc = "create_table"
        /\ IF id \in DOMAIN staging
           THEN /\ inv' = [inv EXCEPT ![t].pc = "finally",
                                      ![t].error = "create_table"]
                /\ UNCHANGED staging
           ELSE /\ inv' = [inv EXCEPT ![t].pc = "load"]
                /\ staging' = (id :> <<>>) @@ staging
        /\ UNCHANGED <<tables, call, clock, readers, others>>

\* load_table_from_json(rows_to_load, staging_table_id): the load job's
\* default dispositions append to the table and create it when it is missing
LoadStaging(t) ==
    LET id == StagingTableId("stord", inv[t].timestamp)
        rows == RowsToLoad(inv[t].batch, "stord")
    IN  /\ inv[t].pc = "load"
        /\ staging' = IF id \in DOMAIN staging
                      THEN [staging EXCEPT ![id] = @ \o rows]
                      ELSE (id :> rows) @@ staging
        /\ inv' = [inv EXCEPT ![t].pc = "merge"]
        /\ UNCHANGED <<tables, call, clock, readers, others>>

\* commits made so far
Commits == Cardinality({t \in Threads : inv[t].commit # NULL})

\* the MERGE statement of the invocation, one transaction
RunMerge(t) ==
    LET r == ExecuteMerge(tables["stord"], staging, "stord", inv[t].batch,
                          inv[t].timestamp, "none")
    IN  /\ inv[t].pc = "merge"
        /\ tables' = [tables EXCEPT !["stord"] = r.table]
        /\ inv' = [inv EXCEPT ![t].pc = "finally",
                              ![t].error = r.error,
                              ![t].seen = tables["stord"],
                              ![t].commit = Commits + 1]
        /\ UNCHANGED <<staging, call, clock, readers, others>>

\* the finally block, then the return or the raise
FinallyDrop(t) ==
    /\ inv[t].pc = "finally"
    /\ staging' = DropStaging(staging, "stord", inv[t].batch, inv[t].timestamp)
    /\ inv' = [inv EXCEPT ![t].pc = "done"]
    /\ UNCHANGED <<tables, call, clock, readers, others>>

NextOverlap ==
    \/ \E t \in Threads : StartSync(t)
    \/ \E t \in Threads : CreateStaging(t)
    \/ \E t \in Threads : LoadStaging(t)
    \/ \E t \in Threads : RunMerge(t)
    \/ \E t \in Threads : FinallyDrop(t)
    \/ Tick

SpecOverlap == Init /\ [][NextOverlap]_vars

\* ------------------------------------------------- analytics payloads
\* A payload dict is a record; a key the payload lacks is outside its
\* DOMAIN, and a key whose JSON value is null is listed in its field nulls.
IsNull(d, k) == "nulls" \in DOMAIN d /\ k \in d.nulls

\* key in d
HasKey(d, k) == k \in DOMAIN d \/ IsNull(d, k)

\* d.get(k, []) when the value is not null: the list, or [] for a missing key
GetList(d, k) == IF k \in DOMAIN d THEN d[k] ELSE <<>>

\* bool(d.get(k)) for a string value
TruthyStr(d, k) == k \in DOMAIN d /\ d[k] # ""

\* bool(d.get(k)) for a numeric value
TruthyNum(d, k) == k \in DOMAIN d /\ d[k] # 0

\* bool(d.get(k)) for a list value
TruthyList(d, k) == k \in DOMAIN d /\ d[k] # <<>>

\* the elements of a list
Elems(l) == {l[i] : i \in 1..Len(l)}

\* warehouse payloads ---------------------------------------------------
Oli(sku, quantity) == [item_sku |-> sku, item_quantity |-> quantity]

Sol(status, olis) == [status |-> status, order_line_items |-> olis]

StordPayload(number, sols) ==
    [order_number |-> number, sales_order_lines |-> sols]

\* sku1 backordered in one line and shipped in another
StordMixed ==
    StordPayload("N1",
        << Sol("backordered", <<Oli("sku01", 2)>>),
           Sol("shipped", <<Oli("sku01", 3), Oli("sku02", 1)>>) >>)

\* a status that differs in case, a line item without sku, one without
\* quantity, a line without status
StordOdd ==
    StordPayload("N2",
        << Sol("Backordered", <<Oli("sku03", 1)>>),
           Sol("backordered",
               <<Oli("sku02", 4), [item_quantity |-> 1], [item_sku |-> "sku04"]>>),
           [order_line_items |-> <<Oli("sku05", 1)>>] >>)

\* six backordered skus
StordWideA ==
    StordPayload("N3",
        << Sol("backordered",
               <<Oli("sku01", 1), Oli("sku02", 1), Oli("sku03", 3),
                 Oli("sku04", 4), Oli("sku05", 5), Oli("sku06", 6)>>) >>)

\* six more
StordWideB ==
    StordPayload("N4",
        << Sol("backordered",
               <<Oli("sku07", 1), Oli("sku08", 2), Oli("sku09", 3),
                 Oli("sku10", 4), Oli("sku11", 5), Oli("sku12", 6)>>) >>)

\* the adapter's payload for an order the platform sent without
\* sales_order_lines: the requested field is present, with value None
StordNoLines == [order_number |-> "N5", nulls |-> {"sales_order_lines"}]

\* DTC payloads ---------------------------------------------------------
Detail(name, inventory_id) == [name |-> name, inventory_id |-> inventory_id]

ShipProduct(sku, ids) ==
    [sku |-> sku, inventory_items |-> [i \in 1..Len(ids) |-> [id |-> ids[i]]]]

Shipment(details, products) ==
    [status |-> "Exception", status_details |-> details, products |-> products,
     location |-> [name |-> "Fontana"]]

OrderProduct(sku, quantity) == [sku |-> sku, quantity |-> quantity]

ShipbobPayload(id, shipments, products) ==
    [id |-> id, type |-> "DTC", status |-> "Exception",
     shipments |-> shipments, products |-> products,
     recipient |-> [email |-> "Ann@x.io"]]

\* one shipment: inventory item 1 is out of stock, item 2 is not
ShipbobOne ==
    ShipbobPayload("D1",
        << Shipment(<<Detail("OutOfStock", 1)>>,
                    <<ShipProduct("sku01", <<3, 1>>), ShipProduct("sku02", <<2>>)>>) >>,
        <<OrderProduct("sku01", 2), OrderProduct("sku02", 5)>>)

\* item 1 is out of stock in the first shipment, and the product made of
\* item 1 is in the second, where item 1 has a detail that is not OutOfStock
\* and the out-of-stock item is another one
ShipbobTwo ==
    ShipbobPayload("D2",
        << Shipment(<<Detail("OutOfStock", 1)>>, <<ShipProduct("sku02", <<2>>)>>),
           Shipment(<<Detail("Processing", 1), Detail("OutOfStock", 3)>>,
                    <<ShipProduct("sku01", <<1>>)>>) >>,
        <<OrderProduct("sku01", 1), OrderProduct("sku02", 1)>>)

\* an OutOfStock detail without inventory_id, an inventory item without id,
\* a product without sku, a product without inventory_items
ShipbobOdd ==
    ShipbobPayload("D3",
        << Shipment(<<[name |-> "OutOfStock"], Detail("OutOfStock", 2)>>,
                    << [sku |-> "sku03", inventory_items |-> <<[lot |-> 1]>>],
                       [inventory_items |-> <<[id |-> 2]>>],
                       [sku |-> "sku04"],
                       ShipProduct("sku05", <<2>>) >>) >>,
        <<OrderProduct("sku05", 3), [sku |-> "sku03"]>>)

\* the first shipment's location is null
ShipbobNoLocation ==
    ShipbobPayload("D4",
        << [status |-> "Exception",
            status_details |-> <<Detail("OutOfStock", 1)>>,
            products |-> <<ShipProduct("sku01", <<1>>)>>,
            nulls |-> {"location"}] >>,
        <<OrderProduct("sku01", 1)>>)

\* the products of the shipment are null
ShipbobNoProducts ==
    ShipbobPayload("D5",
        << [status |-> "Exception",
            status_details |-> <<Detail("OutOfStock", 1)>>,
            location |-> [name |-> "Fontana"],
            nulls |-> {"products"}] >>,
        <<OrderProduct("sku01", 1)>>)

\* a payload that itself carries the two epoch fields (in hours here)
ShipbobTimed ==
    [id |-> "D6", type |-> "DTC", status |-> "Exception",
     shipments |-> << Shipment(<<Detail("OutOfStock", 1)>>,
                               <<ShipProduct("sku01", <<1>>)>>) >>,
     products |-> <<OrderProduct("sku01", 1)>>,
     first_seen_timestamp |-> 1, resolved_timestamp |-> 4]

\* the payloads the exception tables can hold: each passes its refresh job
StoredPayloads ==
    { StordMixed, StordOdd, StordWideA, StordWideB,
      ShipbobOne, ShipbobTwo, ShipbobOdd, ShipbobNoLocation, ShipbobNoProducts,
      ShipbobTimed }

\* the payloads the two adapters can return
AdapterPayloads == StoredPayloads \cup {StordNoLines}

\* ------------------------------------------------ analytics_service.py
\* iterating d.get(k, []) raises TypeError when the value is None
IterRaises(d, k) == IsNull(d, k)

\* a classifier's outcome: the set it returns, or the exception it raises
Returned(skus) == [raised |-> FALSE, skus |-> skus]

Raised == [raised |-> TRUE, skus |-> {}]

\* the test skipped: every sales order line counts
SolIsOosAnyStatus(sol) == TRUE

\* sol.get("status") == "backordered"
SolIsOos(sol) == "status" \in DOMAIN sol /\ sol.status = "backordered"

get_stord_oos_skus(raw_order) ==
    IF IterRaises(raw_order, "sales_order_lines") THEN Raised
    ELSE LET sales_order_lines == GetList(raw_order, "sales_order_lines")
             oos == {sol \in Elems(sales_order_lines) : SolIsOos(sol)}
         IN  IF \E sol \in oos : IterRaises(sol, "order_line_items") THEN Raised
             ELSE Returned(
                    {oli.item_sku : oli \in
                        {x \in UNION {Elems(GetList(sol, "order_line_items")) : sol \in oos} :
                            TruthyStr(x, "item_sku")}})

\* oos_inventory_ids of one shipment
OosInventoryIds(shipment) ==
    {detail.inventory_id : detail \in
        {x \in Elems(GetList(shipment, "status_details")) :
            /\ "name" \in DOMAIN x
            /\ x.name = "OutOfStock"
            /\ TruthyNum(x, "inventory_id")}}

\* the ids pooled over all shipments of the order
OosInventoryIdsOfOrder(raw_order, shipment) ==
    UNION {OosInventoryIds(sh) : sh \in Elems(GetList(raw_order, "shipments"))}

\* the ids a shipment's products are matched against
MatchedIds(raw_order, shipment) == OosInventoryIds(shipment)

\* the skus one shipment adds to oos_skus
ShipmentOosSkus(raw_order, shipment) ==
    LET oos_inventory_ids == MatchedIds(raw_order, shipment)
    IN  IF OosInventoryIds(shipment) = {} THEN {}
        ELSE {product.sku : product \in
                {x \in Elems(GetList(shipment, "products")) :
                    /\ TruthyStr(x, "sku")
                    /\ TruthyList(x, "inventory_items")
                    /\ \E item \in Elems(x.inventory_items) :
                          "id" \in DOMAIN item /\ item.id \in oos_inventory_ids}}

get_shipbob_oos_skus(raw_order) ==
    IF IterRaises(raw_order, "shipments") THEN Raised
    ELSE LET shipments == Elems(GetList(raw_order, "shipments"))
         IN  IF \E sh \in shipments :
                    \/ IterRaises(sh, "status_details")
                    \/ /\ ~IterRaises(sh, "status_details")
                       /\ OosInventoryIds(sh) # {}
                       /\ IterRaises(sh, "products")
             THEN Raised
             ELSE Returned(UNION {ShipmentOosSkus(raw_order, sh) : sh \in shipments})

\* source = "stord" if "sales_order_lines" in raw_order else "shipbob"
SourceOf(raw_order) ==
    IF HasKey(raw_order, "sales_order_lines") THEN "stord" ELSE "shipbob"

\* oos_skus_in_order
OosSkusInOrder(raw_order) ==
    IF SourceOf(raw_order) = "stord" THEN get_stord_oos_skus(raw_order)
    ELSE get_shipbob_oos_skus(raw_order)

\* a defaultdict(int) as the list of its items in insertion order:
\* counts[key] += n
Bump(counts, key, n) ==
    IF \E i \in 1..Len(counts) : counts[i].key = key
    THEN [i \in 1..Len(counts) |->
             IF counts[i].key = key
             THEN [key |-> key, total |-> counts[i].total + n]
             ELSE counts[i]]
    ELSE Append(counts, [key |-> key, total |-> n])

\* the (sku, quantity) additions of a warehouse order, in loop order
RECURSIVE ItemAdditions(_, _)
ItemAdditions(items, oos_skus_in_order) ==
    IF items = <<>> THEN <<>>
    ELSE LET item == Head(items)
         IN  (IF /\ "item_sku" \in DOMAIN item
                 /\ item.item_sku \in oos_skus_in_order
                 /\ TruthyNum(item, "item_quantity")
              THEN <<[key |-> item.item_sku, total |-> item.item_quantity]>>
              ELSE <<>>)
             \o ItemAdditions(Tail(items), oos_skus_in_order)

\* for sol in sales_order_lines: for item in order_line_items: ...
RECURSIVE StordAdditions(_, _)
StordAdditions(sols, oos_skus_in_order) ==
    IF sols = <<>> THEN <<>>
    ELSE ItemAdditions(GetList(Head(sols), "order_line_items"), oos_skus_in_order)
         \o StordAdditions(Tail(sols), oos_skus_in_order)

\* for item in raw_order.get("products", []): ...
RECURSIVE ShipbobAdditions(_, _)
ShipbobAdditions(products, oos_skus_in_order) ==
    IF products = <<>> THEN <<>>
    ELSE LET item == Head(products)
         IN  (IF /\ "sku" \in DOMAIN item
                 /\ item.sku \in oos_skus_in_order
                 /\ "quantity" \in DOMAIN item
              THEN <<[key |-> item.sku, total |-> item.quantity]>>
              ELSE <<>>)
             \o ShipbobAdditions(Tail(products), oos_skus_in_order)

\* the additions one order makes to sku_frequency
SkuAdditions(raw_order, oos_skus_in_order) ==
    IF SourceOf(raw_order) = "stord"
    THEN StordAdditions(GetList(raw_order, "sales_order_lines"), oos_skus_in_order)
    ELSE ShipbobAdditions(GetList(raw_order, "products"), oos_skus_in_order)

RECURSIVE BumpAll(_, _)
BumpAll(counts, additions) ==
    IF additions = <<>> THEN counts
    ELSE BumpAll(Bump(counts, Head(additions).key, Head(additions).total),
                 Tail(additions))

\* the quantity loops raise on a null collection
QuantityLoopRaises(raw_order) ==
    IF SourceOf(raw_order) = "stord"
    THEN \/ IterRaises(raw_order, "sales_order_lines")
         \/ \E sol \in Elems(GetList(raw_order, "sales_order_lines")) :
                IterRaises(sol, "order_line_items")
    ELSE IterRaises(raw_order, "products")

\* str.lower() on the texts of the payloads above
LowerText(text) ==
    CASE text = "Ann@x.io" -> "ann@x.io"
      [] text = "N1" -> "n1"
      [] text = "N2" -> "n2"
      [] text = "N3" -> "n3"
      [] text = "N4" -> "n4"
      [] text = "N5" -> "n5"
      [] text = "D1" -> "d1"
      [] text = "D2" -> "d2"
      [] text = "D3" -> "d3"
      [] text = "D4" -> "d4"
      [] text = "D5" -> "d5"
      [] text = "D6" -> "d6"
      [] OTHER -> text

\* identifier.lower(), the identifier being a prefix and a text
Lower(identifier) == <<identifier[1], LowerText(identifier[2])>>

\* raw_order.get(k, {}).get(...) raises AttributeError when d[k] is None
CustomerRaises(raw_order) ==
    IF SourceOf(raw_order) = "stord" THEN IsNull(raw_order, "destination_address")
    ELSE IsNull(raw_order, "recipient")

\* identifier: the customer's name or email, else the order's id behind a
\* prefix; the empty tuple stands for None
CustomerIdentifier(raw_order) ==
    IF SourceOf(raw_order) = "stord"
    THEN IF /\ "destination_address" \in DOMAIN raw_order
            /\ TruthyStr(raw_order.destination_address, "name")
         THEN <<"", raw_order.destination_address.name>>
         ELSE IF TruthyStr(raw_order, "order_id")
         THEN <<"stord_order_", raw_order.order_id>>
         ELSE IF TruthyStr(raw_order, "order_number")
         THEN <<"stord_order_", raw_order.order_number>>
         ELSE <<>>
    ELSE IF "recipient" \in DOMAIN raw_order /\ TruthyStr(raw_order.recipient, "email")
         THEN <<"", raw_order.recipient.email>>
         ELSE IF TruthyStr(raw_order, "id")
         THEN <<"shipbob_order_", raw_order.id>>
         ELSE <<>>

\* the facility lookup raises when the first shipment's location is None
FacilityRaises(raw_order) ==
    /\ SourceOf(raw_order) = "shipbob"
    /\ TruthyList(raw_order, "shipments")
    /\ IsNull(raw_order.shipments[1], "location")

\* facility: first facility activity's alias, or first shipment's location
\* name; None when there is none
Facility(raw_order) ==
    IF SourceOf(raw_order) = "stord"
    THEN IF /\ TruthyList(raw_order, "facility_activities")
            /\ TruthyStr(raw_order.facility_activities[1], "facility_alias")
         THEN raw_order.facility_activities[1].facility_alias
         ELSE PyNone
    ELSE IF /\ TruthyList(raw_order, "shipments")
            /\ "location" \in DOMAIN raw_order.shipments[1]
            /\ TruthyStr(raw_order.shipments[1].location, "name")
         THEN raw_order.shipments[1].location.name
         ELSE PyNone

\* the order adds a resolution-time sample: both epoch fields are truthy
HasSample(raw_order) ==
    TruthyNum(raw_order, "resolved_timestamp")
    /\ TruthyNum(raw_order, "first_seen_timestamp")

\* duration_hours
DurationHours(raw_order) ==
    raw_order.resolved_timestamp - raw_order.first_seen_timestamp

\* an exception escapes the loop body for this order
OrderRaises(raw_order) ==
    \/ OosSkusInOrder(raw_order).raised
    \/ QuantityLoopRaises(raw_order)
    \/ CustomerRaises(raw_order)
    \/ FacilityRaises(raw_order)

\* the five accumulators before the loop
NoCounts ==
    [sku_frequency |-> <<>>, customer_impact |-> <<>>,
     facility_hotspots_counts |-> <<>>, partner_performance_counts |-> <<>>,
     resolution_times |-> <<>>]

\* one pass of the loop body over an order that raises nothing
ProcessOrder(acc, raw_order) ==
    LET source == SourceOf(raw_order)
        identifier == CustomerIdentifier(raw_order)
        facility == Facility(raw_order)
    IN  [sku_frequency |->
             BumpAll(acc.sku_frequency,
                     SkuAdditions(raw_order, OosSkusInOrder(raw_order).skus)),
         partner_performance_counts |->
             Bump(acc.partner_performance_counts, source, 1),
         customer_impact |->
             IF identifier # <<>>
             THEN Bump(acc.customer_impact, Lower(identifier), 1)
             ELSE acc.customer_impact,
         facility_hotspots_counts |->
             IF facility # PyNone
             THEN Bump(acc.facility_hotspots_counts, <<facility, source>>, 1)
             ELSE acc.facility_hotspots_counts,
         resolution_times |->
             IF HasSample(raw_order)
             THEN Append(acc.resolution_times,
                         [source |-> source, hours |-> DurationHours(raw_order)])
             ELSE acc.resolution_times]

\* for raw_order in oos_orders: ...
RECURSIVE Accumulate(_, _)
Accumulate(acc, oos_orders) ==
    IF oos_orders = <<>> THEN acc
    ELSE Accumulate(ProcessOrder(acc, Head(oos_orders)), Tail(oos_orders))

\* the slice bounds of the three rankings
TopSkus == 10

TopCustomers == 5

TopFacilities == 5

\* one step of a stable descending sort: x goes behind every item whose
\* total is not smaller
RECURSIVE InsertDesc(_, _)
InsertDesc(sorted, x) ==
    IF sorted = <<>> THEN <<x>>
    ELSE IF Head(sorted).total >= x.total
         THEN <<Head(sorted)>> \o InsertDesc(Tail(sorted), x)
         ELSE <<x>> \o sorted

\* a descending sort that puts an item behind the later items of equal total
RECURSIVE SortedDescUnstable(_)
SortedDescUnstable(counts) ==
    IF counts = <<>> THEN <<>>
    ELSE LET rest == SortedDescUnstable(Tail(counts))
             before == SelectSeq(rest, LAMBDA y : y.total >= Head(counts).total)
             after == SelectSeq(rest, LAMBDA y : y.total < Head(counts).total)
         IN  before \o <<Head(counts)>> \o after

\* sorted(counts.items(), key=lambda item: item[1], reverse=True)
RECURSIVE SortedDesc(_)
SortedDesc(counts) ==
    IF counts = <<>> THEN <<>>
    ELSE InsertDesc(SortedDesc(SubSeq(counts, 1, Len(counts) - 1)),
                    counts[Len(counts)])

\* sorted(...)[:n]
Top(counts, n) ==
    LET sorted == SortedDesc(counts)
    IN  SubSeq(sorted, 1, IF Len(sorted) < n THEN Len(sorted) ELSE n)

\* the sources that have a key in resolution_times
SampledSources(resolution_times) ==
    {resolution_times[i].source : i \in 1..Len(resolution_times)}

RECURSIVE SumHours(_)
SumHours(times) ==
    IF times = <<>> THEN 0 ELSE Head(times).hours + SumHours(Tail(times))

\* round(sum(times) / len(times), 2) if times else 0, in hundredths of an
\* hour (no mean of fewer than four whole-hour samples falls on a tie)
MeanHundredths(times) ==
    IF times = <<>> THEN 0
    ELSE (200 * SumHours(times) + Len(times)) \div (2 * Len(times))

\* {source: ... for source, times in resolution_times.items()}
AvgResolutionHours(resolution_times) ==
    [source \in SampledSources(resolution_times) |->
        MeanHundredths(SelectSeq(resolution_times, LAMBDA x : x.source = source))]

\* partner_performance_counts.get(source, 0)
CountOf(counts, key) ==
    IF \E i \in 1..Len(counts) : counts[i].key = key
    THEN counts[CHOOSE i \in 1..Len(counts) : counts[i].key = key].total
    ELSE 0

\* sum(counts.values())
RECURSIVE SumTotals(_)
SumTotals(counts) ==
    IF counts = <<>> THEN 0 ELSE Head(counts).total + SumTotals(Tail(counts))

\* the dict get_full_analytics returns
FormatAnalytics(acc) ==
    LET repeat_customers == SelectSeq(acc.customer_impact, LAMBDA x : x.total > 1)
    IN  [sku_analytics |->
            [sku_frequency |-> Top(acc.sku_frequency, TopSkus)],
         customer_analytics |->
            [total_customers_affected |-> Len(acc.customer_impact),
             repeat_customers_affected |-> Len(repeat_customers),
             top_repeat_customers |-> Top(repeat_customers, TopCustomers)],
         fulfillment_analytics |->
            [facility_hotspots |-> Top(acc.facility_hotspots_counts, TopFacilities),
             partner_performance |->
                [stord_oos_count |-> CountOf(acc.partner_performance_counts, "stord"),
                 shipbob_oos_count |-> CountOf(acc.partner_performance_counts, "shipbob"),
                 total_oos_count |-> SumTotals(acc.partner_performance_counts)]],
         operational_analytics |->
            [average_resolution_time_hours |->
                AvgResolutionHours(acc.resolution_times)]]

\* the outcome of get_full_analytics when the store read returned oos_orders
\* (store_ok) or raised: the except clause turns every exception of the try
\* block into one BigQueryClientError
AnalyticsOutcome(store_ok, oos_orders) ==
    IF ~store_ok
    THEN [state |-> "raised", oos_orders |-> <<>>,
          result |-> [error |-> "BigQueryClientError", cause |-> "store"]]
    ELSE IF \E i \in 1..Len(oos_orders) : OrderRaises(oos_orders[i])
    THEN [state |-> "raised", oos_orders |-> oos_orders,
          result |-> [error |-> "BigQueryClientError", cause |-> "order"]]
    ELSE [state |-> "returned", oos_orders |-> oos_orders,
          result |-> FormatAnalytics(Accumulate(NoCounts, oos_orders))]

\* what get_historical_oos_orders_by_date may return for a window
ReportWindows == SeqsUpTo(StoredPayloads, MaxReport)

\* AnalyticsService.get_full_analytics(start_date, end_date)
get_full_analytics ==
    /\ \E store_ok \in BOOLEAN : \E oos_orders \in ReportWindows :
          report' = AnalyticsOutcome(store_ok, oos_orders)
    /\ UNCHANGED <<store, clock, inv, stord_req, shipbob_req, others>>

\* one of the two classifiers applied to a payload of its source
classify ==
    /\ \E raw_order \in AdapterPayloads :
          report' = [state |-> "classified", oos_orders |-> <<raw_order>>,
                     result |-> OosSkusInOrder(raw_order)]
    /\ UNCHANGED <<store, clock, inv, stord_req, shipbob_req, others>>

NextAnalytics ==
    \/ get_full_analytics
    \/ classify

SpecAnalytics == Init /\ [][NextAnalytics]_vars

\* --------------------------------------- stord_service.get_sales_orders
\* the "after" cursors the platform may put in a page's metadata; "" and
\* None end the pagination
Cursors == {PyNone, "", "c1", "c2"}

\* response_json["metadata"].get("after") is truthy
MorePages(after) == after \notin {PyNone, ""}

\* The pages the platform may answer with: orders and a cursor.  The orders
\* of all pages together stay within MaxFetched.
StordPages(fetched) ==
    {[data |-> d, after |-> a] :
        d \in {x \in SeqsUpTo(StordOrders, MaxFetched) :
                  Len(fetched) + Len(x) <= MaxFetched},
        a \in Cursors}

\* the first request, single_page=False
StordFirstPage ==
    /\ stord_req.pc = "idle"
    /\ \/ \E response_json \in StordPages(<<>>) :
             stord_req' =
                 [pc |-> IF MorePages(response_json.after) THEN "paging" ELSE "done",
                  after |-> response_json.after,
                  response_data |-> response_json.data]
       \/ stord_req' = [stord_req EXCEPT !.pc = "raised"]
    /\ UNCHANGED <<store, clock, inv, report, shipbob_req, others>>

\* one pass of "while response_json["metadata"].get("after")"
StordNextPage ==
    /\ stord_req.pc = "paging"
    /\ \/ \E response_json \in StordPages(stord_req.response_data) :
             stord_req' =
                 [pc |-> IF MorePages(response_json.after) THEN "paging" ELSE "done",
                  after |-> response_json.after,
                  response_data |-> stord_req.response_data \o response_json.data]
       \/ stord_req' = [stord_req EXCEPT !.pc = "raised"]
    /\ UNCHANGED <<store, clock, inv, report, shipbob_req, others>>

NextStordPages ==
    \/ StordFirstPage
    \/ StordNextPage

\* the call runs on: a request that can be made is made
SpecStordPages ==
    Init /\ [][NextStordPages]_vars /\ WF_vars(NextStordPages)

\* ------------------------------------------ shipbob_service.get_orders
\* the pages the platform may answer with: at most limit orders each, the
\* orders of all pages together within MaxFetched
ShipbobPages(output) ==
    {d \in SeqsUpTo(ShipbobOrders, MaxFetched) :
        Len(output) + Len(d) <= MaxFetched}

\* the page size asked for
Limit == MaxFetched

\* a page shorter than limit ends the loop
EndsOnShortPage(data) == Len(data) < Limit

\* "if len(data) == 0: break"
EndsOnPage(data) == Len(data) = 0

\* get_orders(single_page=False, limit, max_pages) is entered
ShipbobStart ==
    /\ shipbob_req.pc = "idle"
    /\ \E max_pages \in 1..MaxPages :
          shipbob_req' = [NoShipbobReq EXCEPT !.pc = "loop", !.page = 1,
                                             !.max_pages = max_pages]
    /\ UNCHANGED <<store, clock, inv, report, stord_req, others>>

\* "if page > max_pages: break"
ShipbobMaxPagesReached ==
    /\ shipbob_req.pc = "loop"
    /\ shipbob_req.page > shipbob_req.max_pages
    /\ shipbob_req' = [shipbob_req EXCEPT !.pc = "done"]
    /\ UNCHANGED <<store, clock, inv, report, stord_req, others>>

\* one pass of the loop that requests a page
ShipbobRequestPage ==
    /\ shipbob_req.pc = "loop"
    /\ shipbob_req.page <= shipbob_req.max_pages
    /\ \/ \E data \in ShipbobPages(shipbob_req.output) :
             shipbob_req' =
                 IF EndsOnPage(data)
                 THEN [shipbob_req EXCEPT
                          !.pc = "done",
                          !.requested = Append(@, shipbob_req.page),
                          !.got = Append(@, data)]
                 ELSE [shipbob_req EXCEPT
                          !.output = @ \o data,
                          !.page = @ + 1,
                          !.requested = Append(@, shipbob_req.page),
                          !.got = Append(@, data)]
       \/ shipbob_req' = [shipbob_req EXCEPT
                             !.pc = "raised",
                             !.requested = Append(@, shipbob_req.page)]
    /\ UNCHANGED <<store, clock, inv, report, stord_req, others>>

NextShipbobPages ==
    \/ ShipbobStart
    \/ ShipbobMaxPagesReached
    \/ ShipbobRequestPage

SpecShipbobPages == Init /\ [][NextShipbobPages]_vars

\* --------------------------------- shipbob_service._filter_oos_orders
\* an order with the given shipments
FilterOrder(id, type, status, shipments, content) ==
    [id |-> id, type |-> type, status |-> status, shipments |-> shipments,
     content |-> content]

\* The orders the filter is applied to: every test of the loop body has an
\* order that passes it and one that fails it; the two tests on a shipment
\* are passed by one shipment or by two different ones.
FilterOrders ==
    LET oos == <<ShipbobShipment("Exception", "OutOfStock")>>
    IN  { FilterOrder("A", "DTC", "Exception", oos, 1),
          FilterOrder("A", "DTC", "Exception", oos, 2),
          FilterOrder("B", "DTC", "Exception", oos, 1),
          FilterOrder("B", "DTC", "Exception",
                      <<ShipbobShipment("Exception", "AddressError")>>, 2),
          FilterOrder("B", "DTC", "Exception",
                      <<ShipbobShipment("Processing", "OutOfStock"),
                        ShipbobShipment("Exception", "AddressError")>>, 3),
          FilterOrder("C", "B2B", "Exception", oos, 1),
          FilterOrder("C", "DTC", "Processing", oos, 2),
          FilterOrder(PyNone, "DTC", "Exception", oos, 1) }

\* longest list the filter is applied to
MaxFiltered == 3

\* _filter_oos_orders(orders, save_to_file=False)
filter_oos_orders ==
    /\ \E orders \in SeqsUpTo(FilterOrders, MaxFiltered) :
          filter_call' = [called |-> TRUE, orders |-> orders,
                          output |-> FilterOosOrders(orders)]
    /\ UNCHANGED <<store, clock, inv, readers, job, query, bulk>>

NextFilter == filter_oos_orders

SpecFilter == Init /\ [][NextFilter]_vars

\* ------------------------------------ background_tasks: the refresh run
\* page size and page limit of the two adapter calls of the refresh jobs
\* (limit=100; limit=250, max_pages=25), scaled down
JobLimit == 1
JobMaxPages == 2

\* most orders a platform reports to a refresh job: one more than
\* get_orders fetches
MaxReported == JobLimit * JobMaxPages + 1

\* a warehouse order whose only line item has the given item_quantity text
StordOrderWithQuantity(number, item_quantity) ==
    [order_number |-> number,
     sales_order_lines |->
        <<[status |-> "backordered",
           order_line_items |->
              <<[item_sku |-> "sku1", item_quantity |-> item_quantity]>>]>>,
     content |-> 1]

\* a warehouse order whose sales_order_lines is null
StordOrderWithoutLines(number) ==
    [order_number |-> number, nulls |-> {"sales_order_lines"}, content |-> 1]

\* what the warehouse platform may report to a refresh job
StordJobOrders ==
    { StordOrderWithQuantity("A", "2"),
      StordOrder("B", "backordered", 1),
      StordOrder("B", "shipped", 1),
      StordOrderWithQuantity("C", "n/a"),
      StordOrderWithoutLines("C") }

\* what the DTC platform may report to a refresh job
ShipbobJobOrders ==
    { ShipbobOrder("A", "Exception", 1),
      ShipbobOrder("B", "Exception", 1),
      ShipbobOrder("B", "Processing", 1) }

StordReports == SeqsUpTo(StordJobOrders, MaxReported - 1)

ShipbobReports == SeqsUpTo(ShipbobJobOrders, MaxReported)

\* the requests of a fetch that may fail in transport: 0 is none of them
FailingRequests == 0..JobMaxPages

\* the orders of page number page of what the platform reports
PageOf(reported, page, limit) ==
    SubSeq(reported, (page - 1) * limit + 1,
           IF page * limit < Len(reported) THEN page * limit ELSE Len(reported))

\* the adapter call raised, or returned data
FetchRaised == [raised |-> TRUE, data |-> <<>>]

FetchReturned(data) == [raised |-> FALSE, data |-> data]

\* the loop of get_orders from page number page on, against a platform that
\* reports the given orders and fails request number fail_at
RECURSIVE GetOrdersFrom(_, _, _, _, _, _)
GetOrdersFrom(reported, fail_at, limit, max_pages, page, output) ==
    IF page > max_pages THEN FetchReturned(output)
    ELSE IF page = fail_at THEN FetchRaised
    ELSE LET data == PageOf(reported, page, limit)
         IN  IF Len(data) = 0 THEN FetchReturned(output)
             ELSE GetOrdersFrom(reported, fail_at, limit, max_pages, page + 1,
                                output \o data)

\* get_orders(single_page=False, limit, max_pages)
GetOrders(reported, fail_at, limit, max_pages) ==
    GetOrdersFrom(reported, fail_at, limit, max_pages, 1, <<>>)

\* the loop of get_sales_orders after request number page: the platform puts
\* an "after" cursor in a page's metadata while orders remain beyond it
RECURSIVE GetSalesOrdersFrom(_, _, _, _, _)
GetSalesOrdersFrom(reported, fail_at, limit, page, response_data) ==
    IF page * limit >= Len(reported) THEN FetchReturned(response_data)
    ELSE IF page + 1 = fail_at THEN FetchRaised
    ELSE GetSalesOrdersFrom(reported, fail_at, limit, page + 1,
                            response_data \o PageOf(reported, page + 1, limit))

\* get_sales_orders(single_page=False, limit, ...)
GetSalesOrders(reported, fail_at, limit) ==
    IF fail_at = 1 THEN FetchRaised
    ELSE GetSalesOrdersFrom(reported, fail_at, limit, 1,
                            PageOf(reported, 1, limit))

\* float(text) returns
FloatParses(text) == text \in {"1", "2", "3.0"}

\* convert_stord_order_to_model(order_data) raises: the loop over a null
\* sales_order_lines, or int(float(...)) of a truthy item_quantity that is
\* no number
ConvertRaises(order_data) ==
    \/ IterRaises(order_data, "sales_order_lines")
    \/ \E i \in 1..Len(order_data.sales_order_lines) :
          LET olis == order_data.sales_order_lines[i].order_line_items
          IN  \E j \in 1..Len(olis) :
                 /\ TruthyStr(olis[j], "item_quantity")
                 /\ ~FloatParses(olis[j].item_quantity)

\* what a refresh job records and leaves in the store
JobOutcome(fetch, synced, logged, batch, T, stg, error) ==
    [fetch |-> fetch, synced |-> synced, logged |-> logged, batch |-> batch,
     table |-> T, staging |-> stg, error |-> error]

\* the try block of a refresh job from the reconcile call on; the except
\* clause logs what the call raises
JobSync(T, stg, source, batch, timestamp, fault) ==
    LET r == SyncResult(T, stg, source, batch, timestamp, fault)
    IN  JobOutcome("ok", TRUE,
                   IF r.error = "none" THEN <<>> ELSE <<<<source, "sync">>>>,
                   batch, r.table, r.staging, r.error)

\* process_stord_data on stord table T
ProcessStordData(T, stg, reported, fail_at, timestamp, fault) ==
    LET stord_raw_orders == GetSalesOrders(reported, fail_at, JobLimit)
    IN  IF stord_raw_orders.raised
        THEN JobOutcome("raised", FALSE, <<<<"stord", "fetch">>>>, <<>>,
                        T, stg, "none")
        ELSE IF \E i \in 1..Len(stord_raw_orders.data) :
                    ConvertRaises(stord_raw_orders.data[i])
        THEN JobOutcome("ok", FALSE, <<<<"stord", "convert">>>>, <<>>,
                        T, stg, "none")
        ELSE JobSync(T, stg, "stord",
                     StordFilteredOosOrders(stord_raw_orders.data),
                     timestamp, fault)

\* process_shipbob_data reconciling the pages fetched before a failed request
ProcessShipbobDataKeepsPages(T, stg, reported, fail_at, timestamp, fault) ==
    LET shipbob_raw_orders ==
            GetOrders(reported, fail_at, JobLimit, JobMaxPages)
        pages == GetOrders(reported, 0, JobLimit, fail_at - 1)
        r == SyncResult(T, stg, "shipbob", FilterOosOrders(pages.data),
                        timestamp, fault)
    IN  IF shipbob_raw_orders.raised
        THEN JobOutcome("raised", TRUE, <<<<"shipbob", "fetch">>>>,
                        FilterOosOrders(pages.data), r.table, r.staging,
                        r.error)
        ELSE JobSync(T, stg, "shipbob",
                     FilterOosOrders(shipbob_raw_orders.data),
                     timestamp, fault)

\* process_shipbob_data on shipbob table T
ProcessShipbobData(T, stg, reported, fail_at, timestamp, fault) ==
    LET shipbob_raw_orders ==
            GetOrders(reported, fail_at, JobLimit, JobMaxPages)
    IN  IF shipbob_raw_orders.raised
        THEN JobOutcome("raised", FALSE, <<<<"shipbob", "fetch">>>>, <<>>,
                        T, stg, "none")
        ELSE JobSync(T, stg, "shipbob",
                     FilterOosOrders(shipbob_raw_orders.data),
                     timestamp, fault)

\* the refresh job of a source run as a step of trigger_full_refresh
RunJob(source, outcome, reported, pc) ==
    /\ TotalRows - Len(tables[source]) + Len(outcome.table) <= MaxRows
    /\ tables' = [tables EXCEPT ![source] = outcome.table]
    /\ staging' = outcome.staging
    /\ call' = IF outcome.synced
               THEN [source |-> source, timestamp |-> clock,
                     error |-> outcome.error]
               ELSE call
    /\ job' = [job EXCEPT !.pc = pc,
                          !.fetch[source] = outcome.fetch,
                          !.synced[source] = outcome.synced,
                          !.logged = @ \o outcome.logged,
                          !.reported = reported,
                          !.batch = outcome.batch]

\* trigger_full_refresh is started: create_tables_if_not_exists returns, or
\* raises and the run logs it and ends
trigger_full_refresh ==
    /\ job.pc = "idle"
    /\ \E created \in BOOLEAN :
          job' = IF created THEN [NoJob EXCEPT !.pc = "stord"]
                 ELSE [NoJob EXCEPT !.pc = "failed",
                                    !.logged = <<<<"refresh", "tables">>>>]
    /\ UNCHANGED <<store, clock, inv, readers, filter_call, query, bulk>>

\* its call of process_stord_data
RefreshStord ==
    /\ job.pc = "stord"
    /\ \E reported \in StordReports : \E fail_at \in FailingRequests :
       \E fault \in Faults :
          RunJob("stord",
                 ProcessStordData(tables["stord"], staging, reported, fail_at,
                                  clock, fault),
                 reported, "shipbob")
    /\ UNCHANGED <<clock, inv, readers, filter_call, query, bulk>>

\* its call of process_shipbob_data
RefreshShipbob ==
    /\ job.pc = "shipbob"
    /\ \E reported \in ShipbobReports : \E fail_at \in FailingRequests :
       \E fault \in Faults :
          RunJob("shipbob",
                 ProcessShipbobData(tables["shipbob"], staging, reported,
                                    fail_at, clock, fault),
                 reported, "done")
    /\ UNCHANGED <<clock, inv, readers, filter_call, query, bulk>>

\* the run has ended; time passes until the next one
RefreshEnds ==
    /\ job.pc \in {"done", "failed"}
    /\ clock < MaxTime
    /\ clock' = clock + 1
    /\ job' = NoJob
    /\ UNCHANGED <<store, inv, readers, filter_call, query, bulk>>

NextRefresh ==
    \/ trigger_full_refresh
    \/ RefreshStord
    \/ RefreshShipbob
    \/ RefreshEnds

SpecRefresh == Init /\ [][NextRefresh]_vars

\* ------------------------------------- bigquery_service: the store reads
\* the payloads the refresh jobs hand over before a read
QueryPayloads(source) ==
    IF source = "stord" THEN {StordMixed, StordOdd} ELSE {ShipbobOne}

\* longest batch reconciled before a read
MaxQueryBatch == 1

\* most rows the two exception tables hold together when they are read
MaxQueryRows == 3

QueryBatches(source) == SeqsUpTo(QueryPayloads(source), MaxQueryBatch)

\* the source names a caller may pass: the two sources and one that is none
SourceNames == Sources \cup {"warehouse"}

\* the order ids a caller may ask for
OrderIds == {"N1", "D1", "X9"}

\* "except BigQueryClientError: raise / except Exception as e: raise
\* BigQueryClientError(...)": what leaves the method when error is raised
\* inside its try block
Wrapped(error) == IF error = "none" THEN "none" ELSE "BigQueryClientError"

\* a read's outcome: what it raised, whether it sent a query to the store,
\* and the rows it returned
QueryOutcome(raised, queried, rows) ==
    [raised |-> raised, queried |-> queried, rows |-> rows]

\* the source check of sync_raw_order_data, made before its try block
SyncInvalidSource(source) ==
    IF source \notin Sources THEN QueryOutcome("ValueError", FALSE, <<>>)
    ELSE QueryOutcome("none", FALSE, <<>>)

\* the rows of T in the order of last_seen_timestamp DESC, from timestamp t
\* down; rows of one timestamp in table order
RECURSIVE OrderByLastSeenDesc(_, _)
OrderByLastSeenDesc(T, t) ==
    IF t < 1 THEN <<>>
    ELSE SelectSeq(T, LAMBDA row : row.last_seen_timestamp = t)
         \o OrderByLastSeenDesc(T, t - 1)

\* json.loads(row.raw_json) for each row
Payloads(rows) == [i \in 1..Len(rows) |-> JsonLoads(rows[i].raw_json)]

\* get_oos_orders(source); store_ok: the query job goes through
GetOosOrders(T, source, store_ok) ==
    IF source \notin Sources
    THEN QueryOutcome(Wrapped("ValueError"), FALSE, <<>>)
    ELSE IF ~store_ok
    THEN QueryOutcome(Wrapped("store"), TRUE, <<>>)
    ELSE QueryOutcome("none", TRUE,
             Payloads(OrderByLastSeenDesc(
                 SelectSeq(T[source],
                           LAMBDA row : /\ row.source = source
                                        /\ row.is_currently_in_exception),
                 MaxTime)))

\* the rows of get_order_details' query before LIMIT 1
DetailMatches(T, order_id, source) ==
    SelectSeq(T[source], LAMBDA row : row.id = order_id /\ row.source = source)

\* get_order_details(order_id, source) when row number pick of the matching
\* rows (the first when there are fewer) is the one LIMIT 1 keeps
GetOrderDetails(T, order_id, source, store_ok, pick) ==
    IF source \notin Sources
    THEN QueryOutcome(Wrapped("ValueError"), FALSE, <<>>)
    ELSE IF ~store_ok
    THEN QueryOutcome(Wrapped("store"), TRUE, <<>>)
    ELSE LET matches == DetailMatches(T, order_id, source)
         IN  QueryOutcome("none", TRUE,
                 IF matches = <<>> THEN <<>>
                 ELSE Payloads(<<matches[IF pick <= Len(matches)
                                         THEN pick ELSE 1]>>))

\* first_seen_timestamp BETWEEN @start_date AND @end_date, bounds excluded
BetweenExclusive(t, start_date, end_date) == start_date < t /\ t < end_date

\* first_seen_timestamp BETWEEN @start_date AND @end_date
Between(t, start_date, end_date) == start_date <= t /\ t <= end_date

\* the WHERE clause of get_historical_oos_orders_by_date
HistoricalWhere(row, start_date, end_date) ==
    /\ row.is_currently_in_exception \/ row.resolved_timestamp # NULL
    /\ Between(row.first_seen_timestamp, start_date, end_date)

\* get_historical_oos_orders_by_date(start_date, end_date): the two tables
\* one after the other (every raw_json the program stores is a non-empty
\* string)
GetHistoricalOosOrdersByDate(T, start_date, end_date, store_ok) ==
    IF ~store_ok
    THEN QueryOutcome(Wrapped("store"), TRUE, <<>>)
    ELSE QueryOutcome("none", TRUE,
             Payloads(SelectSeq(T["stord"] \o T["shipbob"],
                 LAMBDA row : HistoricalWhere(row, start_date, end_date))))

\* MAX(x) over a set of timestamps, NULL over none
MaxOf(S) == IF S = {} THEN NULL ELSE CHOOSE x \in S : \A y \in S : y <= x

\* SELECT MAX(last_seen_timestamp) over the two tables
MaxLastSeen(T) ==
    MaxOf(UNION {{T[s][i].last_seen_timestamp : i \in 1..Len(T[s])} :
                     s \in Sources})

\* get_last_refresh_time()
GetLastRefreshTime(T, store_ok) ==
    IF ~store_ok
    THEN QueryOutcome(Wrapped("store"), TRUE, <<>>)
    ELSE QueryOutcome("none", TRUE, <<MaxLastSeen(T)>>)

\* A read returns or raises: the call and its outcome.  No read changes the
\* store, so one read is followed from each state of the store.
Read(op, source, order_id, start_date, end_date, outcome) ==
    /\ query = NoQuery
    /\ query' = [op |-> op, source |-> source, order_id |-> order_id,
                 start_date |-> start_date, end_date |-> end_date,
                 raised |-> outcome.raised, queried |-> outcome.queried,
                 rows |-> outcome.rows]

\* a refresh job reconciles a batch; what was read before is out of date
reconcile ==
    /\ \E source \in Sources : \E batch \in QueryBatches(source) :
          SyncStep(source, batch, clock, MaxQueryRows)
    /\ query' = NoQuery
    /\ report' = NoReport
    /\ UNCHANGED <<clock, inv, stord_req, shipbob_req, job, filter_call, bulk>>

\* sync_raw_order_data called with a name that is no source
sync_invalid_source ==
    /\ \E source \in SourceNames \ Sources :
          Read("sync_raw_order_data", source, "", NULL, NULL,
               SyncInvalidSource(source))
    /\ UNCHANGED <<store, clock, inv, readers, job, filter_call, bulk>>

get_oos_orders ==
    /\ \E source \in SourceNames : \E store_ok \in BOOLEAN :
          Read("get_oos_orders", source, "", NULL, NULL,
               GetOosOrders(tables, source, store_ok))
    /\ UNCHANGED <<store, clock, inv, readers, job, filter_call, bulk>>

get_order_details ==
    /\ \E order_id \in OrderIds : \E source \in SourceNames :
       \E store_ok \in BOOLEAN : \E pick \in 1..MaxQueryRows :
          Read("get_order_details", source, order_id, NULL, NULL,
               GetOrderDetails(tables, order_id, source, store_ok, pick))
    /\ UNCHANGED <<store, clock, inv, readers, job, filter_call, bulk>>

get_historical_oos_orders_by_date ==
    /\ \E start_date, end_date \in 1..MaxTime : \E store_ok \in BOOLEAN :
          Read("get_historical_oos_orders_by_date", "", "", start_date, end_date,
               GetHistoricalOosOrdersByDate(tables, start_date, end_date,
                                            store_ok))
    /\ UNCHANGED <<store, clock, inv, readers, job, filter_call, bulk>>

get_last_refresh_time ==
    /\ \E store_ok \in BOOLEAN :
          Read("get_last_refresh_time", "", "", NULL, NULL,
               GetLastRefreshTime(tables, store_ok))
    /\ UNCHANGED <<store, clock, inv, readers, job, filter_call, bulk>>

\* get_full_analytics(start_date, end_date) over the store
get_full_analytics_from_store ==
    /\ \E start_date, end_date \in 1..MaxTime : \E store_ok \in BOOLEAN :
          LET read == GetHistoricalOosOrdersByDate(tables, start_date,
                                                  end_date, store_ok)
          IN  /\ Read("get_full_analytics", "", "", start_date, end_date, read)
              /\ report' = AnalyticsOutcome(store_ok, read.rows)
    /\ UNCHANGED <<store, clock, inv, stord_req, shipbob_req, job, filter_call,
                   bulk>>

NextQueries ==
    \/ reconcile
    \/ Tick
    \/ sync_invalid_source
    \/ get_oos_orders
    \/ get_order_details
    \/ get_historical_oos_orders_by_date
    \/ get_last_refresh_time
    \/ get_full_analytics_from_store

SpecQueries == Init /\ [][NextQueries]_vars

\* ------------------------------------------------ main.get_bulk_inventory
\* the SKUs a request may name; two of them differ in case and blanks only
Skus == {"a1", "A1 ", "b2"}

\* most SKUs in a request body
MaxSkus == 2

\* current_sku.strip().lower()
Normalize(sku) == IF sku = "A1 " THEN "a1" ELSE sku

\* total on-hand quantity the warehouse platform reports for a SKU
StordOnHand(sku) ==
    IF sku = "a1" THEN 5 ELSE IF sku = "A1 " THEN 6 ELSE 7

\* (Fontana, other locations) on-hand quantities the DTC platform reports
ShipbobOnHand(sku) ==
    IF sku = "a1" THEN <<1, 2>> ELSE IF sku = "A1 " THEN <<3, 4>> ELSE <<8, 9>>

\* get_inventory_from_stord_api(sku): every exception of the request ends
\* in "return 0"
GetInventoryFromStordApi(sku, ok) == IF ok THEN StordOnHand(sku) ELSE 0

\* get_inventory_from_shipbob_api(sku): every exception ends in "return 0, 0"
GetInventoryFromShipbobApi(sku, ok) ==
    IF ok THEN ShipbobOnHand(sku) ELSE <<0, 0>>

\* the lists list(set(...)) can give: the distinct SKUs in any order
Orderings(S) ==
    {seq \in SeqsUpTo(S, MaxSkus) :
        /\ Len(seq) = Cardinality(S)
        /\ \A i, j \in 1..Len(seq) : seq[i] = seq[j] => i = j}

\* "for sku in skus: tasks.append(stord lookup); tasks.append(shipbob lookup)"
RECURSIVE Tasks(_)
Tasks(skus) ==
    IF skus = <<>> THEN <<>>
    ELSE <<[kind |-> "stord", sku |-> Head(skus)],
           [kind |-> "shipbob", sku |-> Head(skus)]>> \o Tasks(Tail(skus))

\* the positions all_results[i*2] and all_results[i*2+1] of the SKU number i,
\* counted from 1
StordTask(i) == 2 * i - 1

ShipbobTask(i) == 2 * i

\* results handed back in the order the lookups of each kind completed
GatherAsCompleted(returned, completed) ==
    [k \in 1..Len(completed) |->
        returned[SelectSeq(completed,
                           LAMBDA t : t % 2 = k % 2)[(k + 1) \div 2]]]

\* asyncio.gather(*tasks): the results in the order of tasks
Gather(returned, completed) == [k \in 1..Len(completed) |-> returned[k]]

\* the loop that groups all_results by SKU, from SKU number i on
RECURSIVE GroupFrom(_, _, _, _)
GroupFrom(skus, all_results, i, inventory_results) ==
    IF i > Len(skus) THEN inventory_results
    ELSE LET entry ==
                 [sku |-> skus[i],
                  stord_stock |-> all_results[StordTask(i)],
                  shipbob_fontana_stock |-> all_results[ShipbobTask(i)][1],
                  shipbob_other_stock |-> all_results[ShipbobTask(i)][2]]
             key == Normalize(skus[i])
         IN  GroupFrom(skus, all_results, i + 1,
                 [k \in DOMAIN inventory_results \cup {key} |->
                     IF k = key THEN entry ELSE inventory_results[k]])

\* no entry yet
NoInventory == [k \in {} |-> 0]

\* the request arrives: its SKUs are deduplicated and one lookup of each
\* kind is issued per SKU; a request without SKUs is answered with {}
get_bulk_inventory ==
    /\ bulk.pc = "idle"
    /\ \E body \in SeqsUpTo(Skus, MaxSkus) :
       \E skus \in Orderings({body[i] : i \in 1..Len(body)}) :
          bulk' = IF skus = <<>>
                  THEN [NoBulk EXCEPT !.pc = "done",
                                      !.inventory_results = NoInventory]
                  ELSE [NoBulk EXCEPT !.pc = "gather",
                                      !.skus = skus,
                                      !.tasks = Tasks(skus),
                                      !.pending = 1..(2 * Len(skus)),
                                      !.returned = NoInventory]
    /\ UNCHANGED <<store, clock, inv, readers, job, filter_call, query>>

\* one of the lookups in flight completes: it returns what the platform
\* reports, or its request fails and it returns zero
LookupCompletes ==
    /\ bulk.pc = "gather"
    /\ \E t \in bulk.pending : \E ok \in BOOLEAN :
          LET task == bulk.tasks[t]
              result == IF task.kind = "stord"
                        THEN GetInventoryFromStordApi(task.sku, ok)
                        ELSE GetInventoryFromShipbobApi(task.sku, ok)
          IN  bulk' = [bulk EXCEPT
                          !.pending = @ \ {t},
                          !.completed = Append(@, t),
                          !.returned = (t :> result) @@ @,
                          !.failed = IF ok THEN @ ELSE @ \cup {t}]
    /\ UNCHANGED <<store, clock, inv, readers, job, filter_call, query>>

\* every lookup has completed: gather returns and the results are grouped
GatherReturns ==
    /\ bulk.pc = "gather"
    /\ bulk.pending = {}
    /\ bulk' = [bulk EXCEPT
                   !.pc = "done",
                   !.inventory_results =
                       GroupFrom(bulk.skus,
                                 Gather(bulk.returned, bulk.completed),
                                 1, NoInventory)]
    /\ UNCHANGED <<store, clock, inv, readers, job, filter_call, query>>

NextBulk ==
    \/ get_bulk_inventory
    \/ LookupCompletes
    \/ GatherReturns

SpecBulk == Init /\ [][NextBulk]_vars

\* ------------------------------------------------------ claim vocabulary
\* the batches a refresh job can hand to sync_raw_order_data for a source
Batches(source) == IF source = "stord" THEN StordBatches ELSE ShipbobBatches

\* the outcome of sync_raw_order_data(source, batch, now) called in the
\* current state when every client request goes through
Reconciled(source, batch) ==
    SyncResult(tables[source], staging, source, batch, clock, "none")

\* a batch row carries an identity when its identity field is present and
\* not empty
HasIdentity(order_data, source) ==
    GetIdField(order_data, source) \notin {PyNone, ""}

\* the identities present in a batch
BatchIdentities(source, batch) ==
    {GetIdField(batch[k], source) :
        k \in {n \in 1..Len(batch) : HasIdentity(batch[n], source)}}

\* the payloads a batch carries for an identity
BatchPayloads(source, batch, id) ==
    {JsonDumps(batch[k]) :
        k \in {n \in 1..Len(batch) : GetIdField(batch[n], source) = id}}

\* a stored row written from an order that carries an identity
CarriesIdentity(row) == HasIdentity(JsonLoads(row.raw_json), row.source)

\* positions of the rows of table T stored under an identity
RowsOf(T, id) == {j \in 1..Len(T) : T[j].id = id}

\* ------------------------------------------------------------------- C1
\* C1: in sync_raw_order_data(source, batch, now) every stored record that is
\* active and whose identity is absent from batch becomes inactive with
\* resolved_timestamp = now, all its other fields (first_seen_timestamp and
\* raw_json among them) left as they were.  Stated for the records written
\* from orders that carry an identity.
C1_AbsentActiveIsResolved ==
    \A source \in Sources : \A batch \in Batches(source) :
        LET T == tables[source]
            R == Reconciled(source, batch).table
        IN  \A i \in 1..Len(T) :
                (/\ T[i].is_currently_in_exception
                 /\ CarriesIdentity(T[i])
                 /\ T[i].id \notin BatchIdentities(source, batch))
                => /\ i <= Len(R)
                   /\ R[i] = [T[i] EXCEPT !.is_currently_in_exception = FALSE,
                                          !.resolved_timestamp = clock]

\* ------------------------------------------------------------------- C2
\* C2: sync_raw_order_data(source, [], now) resolves every record of the
\* source that was active before the call (inactive, resolved_timestamp =
\* now).  (No call writes the other source's table: sync_raw_order_data
\* replaces tables[source] alone.)  Stated for the records written from
\* orders that carry an identity.
C2_EmptyBatchResolvesAll ==
    \A source \in Sources :
        LET T == tables[source]
            R == Reconciled(source, <<>>).table
        IN  \A i \in 1..Len(T) :
                (T[i].is_currently_in_exception /\ CarriesIdentity(T[i]))
                => /\ i <= Len(R)
                   /\ R[i].is_currently_in_exception = FALSE
                   /\ R[i].resolved_timestamp = clock

\* ------------------------------------------------------------------- C3
\* C3: every identity that is in batch and has no stored record is inserted
\* as one record: active, first_seen = last_seen = now, resolved NULL.
C3_NewIdentityInsertedOnce ==
    \A source \in Sources : \A batch \in Batches(source) :
        LET T == tables[source]
            R == Reconciled(source, batch).table
        IN  \A id \in BatchIdentities(source, batch) :
                RowsOf(T, id) = {}
                => /\ Cardinality(RowsOf(R, id)) = 1
                   /\ \A j \in RowsOf(R, id) :
                         /\ R[j].is_currently_in_exception
                         /\ R[j].first_seen_timestamp = clock
                         /\ R[j].last_seen_timestamp = clock
                         /\ R[j].resolved_timestamp = NULL

\* ------------------------------------------------------------------- C4
\* C4: every identity that is in batch and already has a stored record
\* (active or resolved) ends with raw_json replaced by the batch's payload,
\* last_seen = now, active and resolved NULL.
C4_StoredIdentityRefreshed ==
    \A source \in Sources : \A batch \in Batches(source) :
        LET T == tables[source]
            R == Reconciled(source, batch).table
        IN  \A id \in BatchIdentities(source, batch) :
                \A j \in RowsOf(T, id) :
                    /\ j <= Len(R)
                    /\ R[j].raw_json \in BatchPayloads(source, batch, id)
                    /\ R[j].last_seen_timestamp = clock
                    /\ R[j].is_currently_in_exception
                    /\ R[j].resolved_timestamp = NULL

\* ------------------------------------------------------------------- C5
\* C5: after any sequence of reconcile calls the store holds at most one
\* record per (source, identity).  Stated for the records written from
\* orders that carry an identity.
C5_OneRecordPerIdentity ==
    \A source \in Sources :
        \A i, j \in 1..Len(tables[source]) :
            (/\ CarriesIdentity(tables[source][i])
             /\ tables[source][i].id = tables[source][j].id) => i = j

\* ------------------------------------------------------------------- C6
\* C6: in every reachable state each stored record has a non-null
\* resolved_timestamp if and only if it is not active.
C6_ResolvedIffInactive ==
    \A source \in Sources : \A i \in 1..Len(tables[source]) :
        (tables[source][i].resolved_timestamp # NULL)
        <=> (tables[source][i].is_currently_in_exception = FALSE)

\* a resolved record next to a record whose reappearance cleared its resolution
\* or that stayed active over a later call
C6_Witness ==
    \E source \in Sources : \E i, j \in 1..Len(tables[source]) :
        /\ tables[source][i].is_currently_in_exception = FALSE
        /\ tables[source][i].resolved_timestamp = clock
        /\ tables[source][j].is_currently_in_exception
        /\ tables[source][j].first_seen_timestamp
              < tables[source][j].last_seen_timestamp

\* ------------------------------------------------------------------- C7
\* C7: a record that was resolved and whose identity is in the batch again
\* ends active, with resolved_timestamp NULL and first_seen_timestamp as set
\* at its insertion (the third round of: present, absent, present again).
C7_ReappearanceKeepsFirstSeen ==
    \A source \in Sources : \A batch \in Batches(source) :
        LET T == tables[source]
            R == Reconciled(source, batch).table
        IN  \A id \in BatchIdentities(source, batch) :
                \A j \in RowsOf(T, id) :
                    T[j].is_currently_in_exception = FALSE
                    => /\ j <= Len(R)
                       /\ R[j].is_currently_in_exception
                       /\ R[j].resolved_timestamp = NULL
                       /\ R[j].first_seen_timestamp = T[j].first_seen_timestamp

\* ------------------------------------------------------------------- C8
\* C8: from every reachable store and for every batch, calling
\* sync_raw_order_data twice in a row with the same batch and timestamp
\* leaves the same state as calling it once.
C8_Idempotent ==
    \A source \in Sources : \A batch \in Batches(source) :
        LET once == Reconciled(source, batch)
            twice == SyncResult(once.table, once.staging, source, batch,
                                clock, "none")
        IN  /\ twice.table = once.table
            /\ twice.staging = once.staging

\* the state right after a call that inserted one record and resolved
\* another, in which the call made again with its batch changes nothing
C8_Witness ==
    /\ call.error = "none"
    /\ call.timestamp = clock
    /\ \E i, j \in 1..Len(tables[call.source]) :
          /\ tables[call.source][i].first_seen_timestamp = clock
          /\ tables[call.source][i].is_currently_in_exception
          /\ tables[call.source][j].resolved_timestamp = clock
          /\ tables[call.source][j].first_seen_timestamp < clock
          /\ \E batch \in Batches(call.source) :
                /\ BatchIdentities(call.source, batch)
                      = {tables[call.source][i].id}
                /\ Reconciled(call.source, batch).table = tables[call.source]

\* ------------------------------------------------------------------- C9
\* C9: a batch row without the identity field is skipped: the call has the
\* outcome it has on the batch without that row, and no stored record is
\* written from such a row.
C9_RowWithoutIdentitySkipped ==
    /\ \A source \in Sources : \A batch \in Batches(source) :
          LET withIdentity ==
                  SelectSeq(batch, LAMBDA o : HasIdentity(o, source))
          IN  Reconciled(source, batch).table
                  = Reconciled(source, withIdentity).table
    /\ \A source \in Sources : \A i \in 1..Len(tables[source]) :
          CarriesIdentity(tables[source][i])

\* ------------------------------------------------------------------ C10
\* C10: a call whose staging-table creation, staging load or merge fails
\* changes no stored record; a call that succeeds has applied every
\* transition: each stored row matched by a loaded row is refreshed, each
\* unmatched active row is resolved, every other row is untouched, and each
\* loaded identity without a stored row has been inserted.
C10_AllOrNothing ==
    \A source \in Sources : \A batch \in Batches(source) : \A fault \in Faults :
        LET T == tables[source]
            r == SyncResult(T, staging, source, batch, clock, fault)
            R == r.table
            rows == RowsToLoad(batch, source)
            loaded == {rows[k].id : k \in 1..Len(rows)}
        IN  /\ r.error # "none" => R = T
            /\ r.error = "none" =>
                  /\ Len(R) >= Len(T)
                  /\ \A i \in 1..Len(T) :
                        IF T[i].id \in loaded
                        THEN /\ R[i].is_currently_in_exception
                             /\ R[i].last_seen_timestamp = clock
                             /\ R[i].resolved_timestamp = NULL
                        ELSE IF T[i].is_currently_in_exception
                        THEN /\ R[i].is_currently_in_exception = FALSE
                             /\ R[i].resolved_timestamp = clock
                        ELSE R[i] = T[i]
                  /\ \A id \in loaded : RowsOf(T, id) = {} => RowsOf(R, id) # {}

\* a call whose staging load failed, over a table with an active record of
\* an earlier second that the merge would have refreshed or resolved
C10_Witness ==
    /\ call.error = "load"
    /\ call.timestamp = clock
    /\ \E i \in 1..Len(tables[call.source]) :
          /\ tables[call.source][i].is_currently_in_exception
          /\ tables[call.source][i].last_seen_timestamp < clock

\* ------------------------------------------------------------------ C11
\* the outcome the invocation of thread t has when it runs alone on the
\* table it merged into
Alone(t) ==
    SyncResult(inv[t].seen, NoStaging, "stord", inv[t].batch, inv[t].timestamp,
               "none")

\* C11: when two sync_raw_order_data invocations for one source overlap,
\* neither makes the other fail (each ends as it ends when run alone on the
\* table it merged into, its staging table never refused), each merges its
\* own batch, and the store ends as the last-committing merge left it.
C11_OverlapLastCommitWins ==
    \A t \in Threads :
        inv[t].pc = "done"
        => /\ inv[t].error # "create_table"
           /\ inv[t].error = Alone(t).error
           /\ (inv[t].commit = Commits /\ \A u \in Threads : inv[u].pc = "done")
              => tables["stord"] = Alone(t).table

\* ------------------------------------------------------------------ C12
\* the (sku, quantity) pairs of the line items under backordered sales order
\* lines, in payload order
RECURSIVE BackorderedAdditions(_)
BackorderedAdditions(sols) ==
    IF sols = <<>> THEN <<>>
    ELSE (IF "status" \in DOMAIN Head(sols) /\ Head(sols).status = "backordered"
          THEN LET items == GetList(Head(sols), "order_line_items")
                   counted == SelectSeq(items, LAMBDA x :
                                  /\ "item_sku" \in DOMAIN x
                                  /\ "item_quantity" \in DOMAIN x)
               IN  [i \in 1..Len(counted) |->
                       [key |-> counted[i].item_sku,
                        total |-> counted[i].item_quantity]]
          ELSE <<>>)
         \o BackorderedAdditions(Tail(sols))

\* C12: for a warehouse order the sku_frequency that get_full_analytics
\* computes holds, per sku, the sum of item_quantity over the line items whose
\* sales order line has status "backordered"; line items under lines of any
\* other status add nothing, even with the same sku.  Stated on the report
\* over a window of one warehouse order.
C12_StordQuantityOfBackorderedLines ==
    (/\ report.state = "returned"
     /\ Len(report.oos_orders) = 1
     /\ SourceOf(report.oos_orders[1]) = "stord")
    => report.result.sku_analytics.sku_frequency
          = Top(BumpAll(<<>>, BackorderedAdditions(
                                  report.oos_orders[1].sales_order_lines)),
                TopSkus)

\* ------------------------------------------------------------------ C13
\* C13: get_shipbob_oos_skus returns a set that holds a product's sku if and
\* only if, in some shipment, one of that product's inventory_items has an id
\* equal to the inventory_id of a status detail named "OutOfStock" of the
\* same shipment.  Stated for the payloads on which the classifier returns.
C13_ShipbobOosSkus ==
    (/\ report.state = "classified"
     /\ SourceOf(report.oos_orders[1]) = "shipbob"
     /\ ~report.result.raised)
    => LET raw_order == report.oos_orders[1]
           shipments == Elems(GetList(raw_order, "shipments"))
           products == UNION {Elems(GetList(sh, "products")) : sh \in shipments}
           skus == {x.sku : x \in {y \in products : "sku" \in DOMAIN y}}
       IN  /\ report.result.skus \subseteq skus
           /\ \A sku \in skus :
                 sku \in report.result.skus
                 <=> \E sh \in shipments :
                        \E product \in Elems(GetList(sh, "products")) :
                           /\ "sku" \in DOMAIN product
                           /\ product.sku = sku
                           /\ \E item \in Elems(GetList(product, "inventory_items")) :
                                 \E detail \in Elems(GetList(sh, "status_details")) :
                                    /\ "name" \in DOMAIN detail
                                    /\ detail.name = "OutOfStock"
                                    /\ "inventory_id" \in DOMAIN detail
                                    /\ "id" \in DOMAIN item
                                    /\ item.id = detail.inventory_id

\* the classifier has returned no sku for an order in which an out-of-stock
\* inventory id of one shipment is the id of a product's item in another
C13_Witness ==
    /\ report.state = "classified"
    /\ SourceOf(report.oos_orders[1]) = "shipbob"
    /\ ~report.result.raised
    /\ report.result.skus = {}
    /\ \E sh1, sh2 \in Elems(GetList(report.oos_orders[1], "shipments")) :
          /\ sh1 # sh2
          /\ \E product \in Elems(GetList(sh2, "products")) :
                \E item \in Elems(GetList(product, "inventory_items")) :
                   "id" \in DOMAIN item /\ item.id \in OosInventoryIds(sh1)

\* ------------------------------------------------------------------ C14
\* C14: get_stord_oos_skus returns exactly the union of item_sku over the
\* line items of the sales order lines whose status is "backordered"
\* (case-sensitive); a sku found only under other statuses is absent.
\* Stated for the payloads on which the classifier returns.
C14_StordOosSkus ==
    (/\ report.state = "classified"
     /\ SourceOf(report.oos_orders[1]) = "stord"
     /\ ~report.result.raised)
    => LET sols == Elems(GetList(report.oos_orders[1], "sales_order_lines"))
           backordered == {sol \in sols :
                              "status" \in DOMAIN sol /\ sol.status = "backordered"}
           olis == UNION {Elems(GetList(sol, "order_line_items")) : sol \in backordered}
       IN  report.result.skus
              = {x.item_sku : x \in {y \in olis : "item_sku" \in DOMAIN y}}

\* the classifier has returned a sku of a backordered line and left out the
\* sku of a line whose status is another one or is spelled in another case
C14_Witness ==
    /\ report.state = "classified"
    /\ SourceOf(report.oos_orders[1]) = "stord"
    /\ ~report.result.raised
    /\ report.result.skus # {}
    /\ \E sol \in Elems(GetList(report.oos_orders[1], "sales_order_lines")) :
          /\ "status" \in DOMAIN sol
          /\ sol.status # "backordered"
          /\ \E oli \in Elems(GetList(sol, "order_line_items")) :
                "item_sku" \in DOMAIN oli /\ oli.item_sku \notin report.result.skus

\* ------------------------------------------------------------------ C15
\* C15: the two classifiers never raise on a payload a source adapter can
\* return: a missing or null collection counts as empty, a missing scalar
\* skips its contribution.
C15_ClassifiersNeverRaise ==
    report.state = "classified" => ~report.result.raised

\* ------------------------------------------------------------------ C16
\* C16: in get_full_analytics a processing error on one order drops that
\* order's contribution alone, the result being built from all other orders;
\* a failed store read gives one aggregation error and no partial result.
C16_OrderErrorDropsOrderOnly ==
    /\ report.state = "raised" => report.result.cause = "store"
    /\ report.state = "returned"
       => report.result
             = FormatAnalytics(Accumulate(NoCounts,
                   SelectSeq(report.oos_orders, LAMBDA o : ~OrderRaises(o))))

\* ------------------------------------------------------------------ C17
\* position of a sku in the totals, which are in first-encountered order
PositionIn(totals, key) == CHOOSE i \in 1..Len(totals) : totals[i].key = key

\* C17: the sku_frequency returned holds min(10, number of skus with a
\* total) entries, by total descending; no sku left out has a total greater
\* than one that is in; skus of equal total keep the order in which they were
\* first encountered, at the cut too.
C17_TopTenStable ==
    report.state = "returned"
    => LET totals == Accumulate(NoCounts, report.oos_orders).sku_frequency
           top == report.result.sku_analytics.sku_frequency
           out == {x \in Elems(totals) : x \notin Elems(top)}
       IN  /\ Len(top) = IF Len(totals) < 10 THEN Len(totals) ELSE 10
           /\ Elems(top) \subseteq Elems(totals)
           /\ \A i, j \in 1..Len(top) :
                 i < j => /\ top[i].total >= top[j].total
                          /\ top[i].key # top[j].key
                          /\ top[i].total = top[j].total
                             => PositionIn(totals, top[i].key)
                                   < PositionIn(totals, top[j].key)
           /\ \A x \in out : \A i \in 1..Len(top) :
                 /\ x.total <= top[i].total
                 /\ x.total = top[i].total
                    => PositionIn(totals, top[i].key) < PositionIn(totals, x.key)

\* a report over more than ten skus in which a sku is left out whose total
\* equals that of the last sku that is in
C17_Witness ==
    /\ report.state = "returned"
    /\ Len(report.result.sku_analytics.sku_frequency) = 10
    /\ LET totals == Accumulate(NoCounts, report.oos_orders).sku_frequency
           top == report.result.sku_analytics.sku_frequency
       IN  /\ Len(totals) > 10
           /\ \E x \in Elems(totals) :
                 x \notin Elems(top) /\ x.total = top[10].total
           /\ \E i \in 1..9 : top[i].total = top[i + 1].total

\* ------------------------------------------------------------------ C18
\* C18: average_resolution_time_hours has an entry for each of the two
\* sources, and a source without a resolved sample in the window reports 0.
C18_EverySourceHasAverage ==
    report.state = "returned"
    => LET avg == report.result.operational_analytics.average_resolution_time_hours
       IN  /\ DOMAIN avg = Sources
           /\ \A source \in Sources :
                 (~\E i \in 1..Len(report.oos_orders) :
                      /\ SourceOf(report.oos_orders[i]) = source
                      /\ HasSample(report.oos_orders[i]))
                 => source \in DOMAIN avg /\ avg[source] = 0

\* ------------------------------------------------------------------ C19
\* C19: get_sales_orders in multi-page mode follows the "after" cursor and
\* stops when the cursor is exhausted or a page limit is reached: once
\* entered it returns or raises, whatever cursors the platform sends.
C19_SalesOrdersTerminates ==
    (stord_req.pc # "idle") ~> (stord_req.pc \in {"done", "raised"})

\* ------------------------------------------------------------------ C20
\* the pages received, one after the other
RECURSIVE Concat(_)
Concat(pages) ==
    IF pages = <<>> THEN <<>> ELSE Head(pages) \o Concat(Tail(pages))

\* C20: get_orders in multi-page mode requests pages 1, 2, 3, ... in order
\* and stops exactly when a page comes back empty or max_pages pages have been
\* requested; a page shorter than the page size does not stop it.  It makes
\* at most max_pages requests and returns the concatenation of the non-empty
\* pages it fetched.
C20_PagesUntilEmptyOrMax ==
    LET r == shipbob_req
        n == Len(r.requested)
    IN  r.pc \in {"loop", "done"}
        => /\ \A i \in 1..n : r.requested[i] = i
           /\ n <= r.max_pages
           /\ Len(r.got) = n
           /\ r.output = Concat(r.got)
           /\ \A i \in 1..(n - 1) : r.got[i] # <<>>
           /\ r.pc = "loop" => /\ r.page = n + 1
                               /\ n > 0 => r.got[n] # <<>>
           /\ r.pc = "done" => \/ n > 0 /\ r.got[n] = <<>>
                               \/ n = r.max_pages

\* get_orders has returned after a page shorter than the page size was
\* followed by a further request
C20_Witness ==
    /\ shipbob_req.pc = "done"
    /\ \E i \in 1..(Len(shipbob_req.got) - 1) :
          /\ shipbob_req.got[i] # <<>>
          /\ Len(shipbob_req.got[i]) < Limit
          /\ shipbob_req.requested[i + 1] = i + 1
    /\ shipbob_req.output # <<>>

\* ------------------------------------------------------------------ C21
\* the order without the key the filter adds to it
WithoutLocationName(order) ==
    [k \in DOMAIN order \ {"shipments_location_name"} |-> order[k]]

\* the order is a DTC order in status Exception with a shipment that is in
\* status Exception and has an OutOfStock status detail
IsOosException(order) ==
    /\ order.type = "DTC"
    /\ order.status = "Exception"
    /\ \E i \in 1..Len(order.shipments) :
          /\ order.shipments[i].status = "Exception"
          /\ \E j \in 1..Len(order.shipments[i].status_details) :
                order.shipments[i].status_details[j].name = "OutOfStock"

\* C21: _filter_oos_orders returns, in input order, exactly the DTC orders
\* in status Exception that have a shipment in status Exception with an
\* OutOfStock status detail, the first of each identity only: no two
\* returned orders share the same id.
C21_FilterKeepsFirstOfEachId ==
    filter_call.called =>
        LET orders == filter_call.orders
            output == filter_call.output
            first == {i \in 1..Len(orders) :
                         /\ IsOosException(orders[i])
                         /\ \A k \in 1..(i - 1) :
                               IsOosException(orders[k])
                               => orders[k].id # orders[i].id}
        IN  /\ Len(output) = Cardinality(first)
            /\ \A j \in 1..Len(output) :
                  \E i \in first :
                      /\ WithoutLocationName(output[j]) = orders[i]
                      /\ Cardinality({k \in first : k < i}) = j - 1
            /\ \A i, j \in 1..Len(output) :
                  output[i].id = output[j].id => i = j

\* ------------------------------------------------------------------ C22
\* the refresh job that runs after the job of source s in trigger_full_refresh
PcAfter(s) == IF s = "stord" THEN "shipbob" ELSE "done"

\* C22: when the fetch of a source fails in transport on any page, the
\* refresh job of that source makes no reconcile call and changes no stored
\* record, the error is logged and leaves the run going, and the other
\* source's job is run all the same: it fetches, and reconciles what it
\* fetched.
C22_FetchErrorAbortsSourceOnly ==
    [][ /\ \A s \in Sources :
              (job.fetch[s] = "none" /\ job'.fetch[s] = "raised")
              => /\ tables' = tables
                 /\ staging' = staging
                 /\ call' = call
                 /\ job'.synced[s] = FALSE
                 /\ job'.batch = <<>>
                 /\ job'.logged = job.logged \o <<<<s, "fetch">>>>
                 /\ job'.pc = PcAfter(s)
        /\ job'.pc = "done"
           => \A s \in Sources :
                 /\ job'.fetch[s] \in {"ok", "raised"}
                 /\ job'.fetch[s] = "ok"
                    => \/ job'.synced[s]
                       \/ \E i \in 1..Len(job'.logged) :
                             job'.logged[i] = <<s, "convert">>
      ]_vars

\* a run has ended in which the warehouse fetch failed on its second request
\* over records stored by an earlier run, and the DTC job went on to insert
\* a record
C22_Witness ==
    /\ job.pc = "done"
    /\ job.fetch["stord"] = "raised"
    /\ job.synced["stord"] = FALSE
    /\ job.synced["shipbob"]
    /\ call = [source |-> "shipbob", timestamp |-> clock, error |-> "none"]
    /\ \E i \in 1..Len(tables["stord"]) :
          /\ tables["stord"][i].is_currently_in_exception
          /\ tables["stord"][i].last_seen_timestamp < clock
    /\ \E i \in 1..Len(tables["shipbob"]) :
          tables["shipbob"][i].first_seen_timestamp = clock

\* ------------------------------------------------------------------ C23
\* the fetched orders that convert_stord_order_to_model can convert
WellFormed(stord_raw_orders) ==
    SelectSeq(stord_raw_orders, LAMBDA order_data : ~ConvertRaises(order_data))

\* C23: a malformed record in a fetched batch (an item_quantity that is no
\* number, a null sales_order_lines) is skipped on its own: process_stord_data
\* whose fetch went through reconciles the OOS orders among the well-formed
\* orders it fetched.
C23_MalformedRecordSkippedAlone ==
    (job.pc = "shipbob" /\ job.fetch["stord"] = "ok")
    => /\ job.synced["stord"]
       /\ job.batch = StordFilteredOosOrders(WellFormed(job.reported))

\* ------------------------------------------------------------------ C29
\* the identities of the orders the DTC platform reports as DTC orders in
\* OOS exception
ReportedOos(reported) ==
    {Str(reported[i].id) :
        i \in {n \in 1..Len(reported) : IsOosException(reported[n])}}

\* C29: a process_shipbob_data run that succeeds resolves no stored record
\* whose order the DTC platform reports as a DTC order in OOS exception at
\* that moment, also when get_orders stopped at the maximum page count.
C29_ReportedOrderNotResolved ==
    (/\ job.pc = "done"
     /\ job.synced["shipbob"]
     /\ call = [source |-> "shipbob", timestamp |-> clock, error |-> "none"])
    => \A i \in 1..Len(tables["shipbob"]) :
          tables["shipbob"][i].id \in ReportedOos(job.reported)
          => /\ tables["shipbob"][i].is_currently_in_exception
             /\ tables["shipbob"][i].resolved_timestamp = NULL

\* ------------------------------------------------------------------ C26
\* the identities sync_raw_order_data loads from a batch
LoadedIdentities(source, batch) ==
    {RowsToLoad(batch, source)[k].id : k \in 1..Len(RowsToLoad(batch, source))}

\* C26: a record that is already resolved and whose identity is absent from
\* the batch is left completely unchanged by the reconcile call, whether the
\* call returns or raises: it is resolved once, and resolved_timestamp stays
\* the timestamp of the call that resolved it.
C26_ResolvedAbsentUnchanged ==
    \A source \in Sources : \A batch \in Batches(source) : \A fault \in Faults :
        LET T == tables[source]
            R == SyncResult(T, staging, source, batch, clock, fault).table
        IN  \A i \in 1..Len(T) :
                (/\ T[i].is_currently_in_exception = FALSE
                 /\ T[i].resolved_timestamp # NULL
                 /\ T[i].id \notin LoadedIdentities(source, batch))
                => /\ i <= Len(R)
                   /\ R[i] = T[i]

\* a call has returned that refreshed one record of its source and left
\* alone a record resolved an earlier second
C26_Witness ==
    /\ call.error = "none"
    /\ call.timestamp = clock
    /\ \E i, j \in 1..Len(tables[call.source]) :
          /\ tables[call.source][i].is_currently_in_exception = FALSE
          /\ tables[call.source][i].resolved_timestamp # NULL
          /\ tables[call.source][i].resolved_timestamp < clock
          /\ tables[call.source][j].is_currently_in_exception
          /\ tables[call.source][j].last_seen_timestamp = clock

\* ------------------------------------------------------------------ C24
\* C24: sync_raw_order_data, get_oos_orders and get_order_details called
\* with a name that is neither "stord" nor "shipbob" raise ValueError, which
\* is not the BigQueryClientError a failing store gives, and send nothing to
\* the store.
C24_InvalidSourceIsValueError ==
    /\ (/\ query.op \in {"sync_raw_order_data", "get_oos_orders",
                         "get_order_details"}
        /\ query.source \notin Sources)
       => /\ query.raised = "ValueError"
          /\ query.queried = FALSE
    /\ (query.queried /\ query.raised # "none")
       => query.raised = "BigQueryClientError"

\* ------------------------------------------------------------------ C27
\* the records of both sources
AllRecords == tables["stord"] \o tables["shipbob"]

\* how many elements of the sequence satisfy Test
Count(seq, Test(_)) == Cardinality({i \in 1..Len(seq) : Test(seq[i])})

\* C27: get_historical_oos_orders_by_date(start, end) returns the payload of
\* every record of both sources whose first_seen_timestamp lies in
\* [start, end], both bounds included, active or resolved, and of no other
\* record: each payload as many times as records in the window carry it.
C27_HistoricalWindowInclusive ==
    (query.op = "get_historical_oos_orders_by_date" /\ query.raised = "none")
    => LET inWindow ==
               SelectSeq(AllRecords,
                   LAMBDA row : /\ query.start_date <= row.first_seen_timestamp
                                /\ row.first_seen_timestamp <= query.end_date)
       IN  /\ Len(query.rows) = Len(inWindow)
           /\ \A k \in 1..Len(inWindow) :
                 LET payload == JsonLoads(inWindow[k].raw_json)
                 IN  Count(query.rows, LAMBDA p : p = payload)
                     = Count(inWindow,
                             LAMBDA row : JsonLoads(row.raw_json) = payload)

\* the read of a window of one second has returned two payloads, of a
\* resolved record of one source and an active record of the other, and left
\* out a record first seen later
C27_Witness ==
    /\ query.op = "get_historical_oos_orders_by_date"
    /\ query.raised = "none"
    /\ query.start_date = query.end_date
    /\ Len(query.rows) = 2
    /\ \E i \in 1..Len(tables["stord"]) : \E j \in 1..Len(tables["shipbob"]) :
          /\ tables["stord"][i].first_seen_timestamp = query.start_date
          /\ tables["stord"][i].resolved_timestamp # NULL
          /\ tables["shipbob"][j].first_seen_timestamp = query.start_date
          /\ tables["shipbob"][j].is_currently_in_exception
    /\ \E i \in 1..Len(AllRecords) :
          AllRecords[i].first_seen_timestamp > query.end_date

\* ------------------------------------------------------------------ C28
\* the two tables after sync_raw_order_data(source, batch, now) called in the
\* current state, every client request going through
TablesAfter(source, batch) ==
    [tables EXCEPT ![source] = Reconciled(source, batch).table]

WindowSamples(start_date, end_date) ==
    LET resolved ==
            SelectSeq(AllRecords,
                LAMBDA row : /\ row.resolved_timestamp # NULL
                             /\ start_date <= row.first_seen_timestamp
                             /\ row.first_seen_timestamp <= end_date)
    IN  [i \in 1..Len(resolved) |->
            [source |-> resolved[i].source,
             hours |-> resolved[i].resolved_timestamp
                       - resolved[i].first_seen_timestamp]]

\* C30: a record that one reconcile call inserted at t1 and a later one
\* resolved at t2 contributes one resolution-time sample of t2 - t1 to its
\* source's mean when get_full_analytics runs over a window containing t1:
\* the means reported are those of the samples of the resolved records first
\* seen in the window.
C30_ResolvedRecordGivesSample ==
    (query.op = "get_full_analytics" /\ report.state = "returned")
    => report.result.operational_analytics.average_resolution_time_hours
          = AvgResolutionHours(WindowSamples(query.start_date, query.end_date))

\* ------------------------------------------------------------------ C25
\* the lookup of the given kind issued for a SKU failed
LookupFailed(kind, sku) ==
    \E t \in bulk.failed : bulk.tasks[t] = [kind |-> kind, sku |-> sku]

\* C25: whatever order the lookups of get_bulk_inventory complete in, each
\* result is attached to the SKU that issued it; a lookup that fails gives
\* zero for its own values only: the sibling lookup's values and every other
\* SKU's values are those the platforms report.
C25_ResultsJoinedToOwnSku ==
    bulk.pc = "done" =>
        /\ \A i \in 1..Len(bulk.skus) :
              Normalize(bulk.skus[i]) \in DOMAIN bulk.inventory_results
        /\ \A key \in DOMAIN bulk.inventory_results :
              LET entry == bulk.inventory_results[key]
              IN  /\ Normalize(entry.sku) = key
                  /\ \E i \in 1..Len(bulk.skus) : bulk.skus[i] = entry.sku
                  /\ entry.stord_stock =
                        IF LookupFailed("stord", entry.sku) THEN 0
                        ELSE StordOnHand(entry.sku)
                  /\ <<entry.shipbob_fontana_stock, entry.shipbob_other_stock>> =
                        IF LookupFailed("shipbob", entry.sku) THEN <<0, 0>>
                        ELSE ShipbobOnHand(entry.sku)

\* a request for two SKUs has been answered whose lookups completed in
\* another order than they were issued in, the warehouse lookup of one SKU
\* having failed and no other
C25_Witness ==
    /\ bulk.pc = "done"
    /\ Len(bulk.skus) = 2
    /\ bulk.completed[1] = 4
    /\ bulk.completed[4] = 1
    /\ bulk.failed = {StordTask(2)}
    /\ Cardinality(DOMAIN bulk.inventory_results) = 2
    /\ bulk.inventory_results[Normalize(bulk.skus[2])].stord_stock = 0
    /\ bulk.inventory_results[Normalize(bulk.skus[2])].shipbob_fontana_stock > 0
    /\ bulk.inventory_results[Normalize(bulk.skus[1])].stord_stock > 0

====
